---- MODULE Spec2Model ----
(***************************************************************************)
(* A model of the range replica engine of dato/cockroach:                  *)
(*   - the replica side raft storage (storage/replica_raftstorage.go),     *)
(*   - the MultiRaft event loop (multiraft/multiraft.go) together with its *)
(*     consumer Store.processRaft (storage/store.go).                      *)
(* Every definition that models code carries the place it is taken from.   *)
(***************************************************************************)
EXTENDS Integers, Sequences, FiniteSets, TLC

(***************************************************************************)
(* Bounds of the model.                                                    *)
(***************************************************************************)
\* number of log indices above raftInitialLogIndex the model explores
MaxNewEntries == 3
\* largest size limit passed to Entries
MaxBytes == 2
\* number of entries the range commits while the loop is watched
MaxCommits == 1
\* number of group objects createGroup may allocate
MaxIncarnations == 2
\* the keys of the store's key space are 0 (KeyMin) .. MaxKey
MaxKey == 3
MaxElections == 1
\* number of requests of a batch given to Split
MaxRequests == 3
\* the physical clock of the store and the wall times of the timestamps of
\* batches and intents are 0..MaxWall
MaxWall == 2
\* number of calls of the replica one call of Store.Send may make
MaxAttempts == 2
\* Config.HeartbeatIntervalTicks
HeartbeatIntervalTicks == 2

(***************************************************************************)
(* Program constants.                                                      *)
(***************************************************************************)
raftInitialLogIndex == 10
raftInitialLogTerm == 5

MaxIndex == raftInitialLogIndex + MaxNewEntries
LogIndices == (raftInitialLogIndex + 1)..MaxIndex
\* terms of leaders elected after the initial term
Terms == {raftInitialLogTerm + 1, raftInitialLogTerm + 2}
\* user keys of the key space, in key order
UserKeys == {1, 2}

Max(a, b) == IF a >= b THEN a ELSE b
Min(a, b) == IF a <= b THEN a ELSE b

(***************************************************************************)
(* REPLICA STORAGE  (storage/replica_raftstorage.go)                       *)
(***************************************************************************)
VARIABLES
    engine,          \* the range's keys in the store engine
    lastIndex,       \* r.lastIndex (atomic)
    appliedIndex,    \* r.appliedIndex (atomic)
    desc,            \* r.Desc(): the in-memory range descriptor
    lease,           \* r.lease
    stats,           \* r.stats
    truncatedState,  \* the cached truncated state of the replica
    wpc,             \* position of the write task in a group write
    wreq,            \* the group write request being persisted
    lastOp,          \* the storage operation that ran last, with its argument and result
    entriesCall      \* the last call of Entries: its arguments and what it returned

storageVars == <<engine, lastIndex, appliedIndex, desc, lease, stats,
                 truncatedState, wpc, wreq, lastOp, entriesCall>>

(***************************************************************************)
(* MULTIRAFT  (multiraft/multiraft.go, storage/store.go): one node, one    *)
(* range; the state of the loop, of the consensus library, of the write    *)
(* task and of the store's processRaft goroutine                           *)
(***************************************************************************)
VARIABLES
    group,           \* s.groups[groupID]
    nodes,           \* s.nodes
    created,         \* number of group objects createGroup has allocated
    writingGroups,   \* the ready batch being written (nil when there is none)
    writeTask,       \* the write task: its request and its response channel
    pendingEvents,   \* s.pendingEvents
    events,          \* the events slice Store.processRaft is working through
    callbackChan,    \* s.callbackChan: the closure processRaft is sending
    replica,         \* s.replicas[groupID] of the store with its persisted state
    multiNode,       \* the consensus library's state of the group
    raftLog,         \* the kinds of the entries the range has committed so far
    sent,            \* the Transport.Send calls of the last step of the loop
    stepped,         \* the multiNode.Step calls of the last step of the loop
    handled,         \* the request the last step of the loop handled
    panicked,        \* the loop goroutine has panicked
    loopPc,          \* where the loop is: at its select or waiting for the write
    handedIndex,     \* the index of the last command handed to the replica
    proposals,       \* the proposals handed to SubmitCommand: where each is and
                     \* what its channel holds
    proposed,        \* the proposals the loop's last step handed to the library
    elections,       \* the elections the range has held
    lookup,          \* the last call of Store.LookupReplica: its arguments and result
    verified,        \* the last call of verifyKeys: its arguments and result
    ticks,           \* the loop's count of ticks since the last coalesced heartbeat
    replicasByKey,   \* s.replicasByKey: the spans of the store's other ranges
    tombstone        \* NextReplicaID of the range's tombstone (0: there is none)

(***************************************************************************)
(* STORE  (storage/store.go, roachpb batch.go): a call of Store.Send, of   *)
(* Store.Bootstrap and of BatchRequest.Split                               *)
(***************************************************************************)
VARIABLES
    send,            \* the call of Store.Send: the clock, the batch, the retry
                     \* state, what the replica and the push answered last
    booted,          \* the call of Store.Bootstrap: the engine before and after
    splitCall,       \* the last call of BatchRequest.Split: the batch and its parts
    store,           \* the Store's indexes: s.replicas, s.replicasByKey,
                     \* s.uninitReplicas, the descriptors of the replicas and the
                     \* group the last operation had s.multiraft remove
    storeOp          \* the last operation that changed the indexes, and its error

rangeVars == <<store, storeOp>>

storeVars == <<send, booted, splitCall, rangeVars>>

mrVars == <<group, nodes, created, writingGroups, writeTask, pendingEvents, events,
            callbackChan, replica, multiNode, raftLog, sent, stepped, handled,
            panicked, loopPc, handedIndex, ticks, replicasByKey, tombstone,
            proposals, proposed, elections, lookup, verified, storeVars>>

\* raftpb.HardState, with the "found" result of MVCCGetProto
NoHardState == [found |-> FALSE, term |-> 0, vote |-> 0, commit |-> 0]
\* an integer key of the engine (last index, applied index): absent or set
NoInt == [ok |-> FALSE, v |-> 0]
SomeInt(n) == [ok |-> TRUE, v |-> n]
\* roachpb.RaftTruncatedState key: absent or set
NoTS == [ok |-> FALSE, index |-> 0, term |-> 0]
\* raftpb.Entry stored under RaftLogKey(rangeID, index): absent or set
NoEntry == [ok |-> FALSE, term |-> 0, size |-> 0]
Entry(t, s) == [ok |-> TRUE, term |-> t, size |-> s]
EmptyLog == [i \in LogIndices |-> NoEntry]

\* a descriptor: range id known, span [start, end) known only when initialized
UninitDesc == [start |-> 0, end |-> 0]
Desc(s, e) == [start |-> s, end |-> e]

\* Replica.isInitialized: the descriptor carries a real end key
isInitialized(d) == d.end # 0

\* the user keys of a descriptor's span [start, end)
SpanKeys(d) == {k \in UserKeys : d.start <= k /\ k < d.end}

\* the keys of the range held by an engine with nothing written
EmptyEngine ==
    [hs |-> NoHardState, li |-> NoInt, ai |-> NoInt, ts |-> NoTS,
     log |-> EmptyLog, lease |-> "nil", stats |-> "nil",
     kv |-> [k \in UserKeys |-> "nil"]]

\* raftpb.Snapshot: metadata and the decoded RaftSnapshotData
NoSnapshot == [ok |-> FALSE, index |-> 0, term |-> 0, desc |-> UninitDesc, kv |-> EmptyEngine]

(* ---- reads -------------------------------------------------------------*)

\* Replica.raftTruncatedState: the cached value if there is one, else the
\* persisted one, else the default of an initialized / uninitialized range
raftTruncatedState(cache, e, d) ==
    IF cache.ok THEN cache
    ELSE IF e.ts.ok THEN e.ts
    ELSE IF isInitialized(d)
         THEN [ok |-> TRUE, index |-> raftInitialLogIndex, term |-> raftInitialLogTerm]
         ELSE [ok |-> TRUE, index |-> 0, term |-> 0]

\* the cache after raftTruncatedState ran: a value with index 0 is not cached
cacheAfterTruncatedState(cache, e, d) ==
    IF raftTruncatedState(cache, e, d).index # 0
    THEN raftTruncatedState(cache, e, d) ELSE cache

\* Replica.FirstIndex
FirstIndex(cache, e, d) == raftTruncatedState(cache, e, d).index + 1

\* Replica.LastIndex
LastIndex(li) == li

\* Replica.loadAppliedIndex
loadAppliedIndex(e, d) ==
    IF e.ai.ok THEN e.ai.v
    ELSE IF isInitialized(d) THEN raftInitialLogIndex ELSE 0

\* Replica.loadLastIndex
loadLastIndex(e, cache, d) ==
    IF e.li.ok THEN e.li.v ELSE raftTruncatedState(cache, e, d).index

\* the HardState InitialState returns
InitialStateHardState(e, d) ==
    IF e.hs.found THEN e.hs
    ELSE IF isInitialized(d)
         THEN [found |-> FALSE, term |-> raftInitialLogTerm, vote |-> 0,
               commit |-> raftInitialLogIndex]
         ELSE NoHardState

\* a variant of InitialState that resets r.lastIndex on every call
InitialStateLastIndex_AlwaysReset(e, d, li) ==
    IF isInitialized(d) THEN raftInitialLogIndex ELSE 0

\* r.lastIndex after InitialState: reset only when no HardState is persisted
InitialStateLastIndex(e, d, li) ==
    IF e.hs.found THEN li
    ELSE IF isInitialized(d) THEN raftInitialLogIndex ELSE 0

\* the scan of Entries over the log keys in [i, hi): every stored entry is
\* added, and the scan stops once maxBytes > 0 and the size exceeds it
RECURSIVE scanLog(_, _, _, _, _, _)
scanLog(log, i, hi, maxBytes, ents, size) ==
    IF i >= hi THEN [ents |-> ents, size |-> size]
    ELSE IF i \notin DOMAIN log \/ ~log[i].ok
         THEN scanLog(log, i + 1, hi, maxBytes, ents, size)
         ELSE LET e == [index |-> i, term |-> log[i].term, size |-> log[i].size]
                  sz == size + log[i].size
              IN IF maxBytes > 0 /\ sz > maxBytes
                 THEN [ents |-> Append(ents, e), size |-> sz]
                 ELSE scanLog(log, i + 1, hi, maxBytes, Append(ents, e), sz)

\* Replica.Entries, the check after the scan: the list is short and neither
\* the count nor the size limit explains it
EntriesShort(n, lo, hi, maxBytes, size) ==
    n # hi - lo /\ (maxBytes = 0 \/ size < maxBytes)

\* Replica.Entries(lo, hi, maxBytes)
Entries(log, lo, hi, maxBytes) ==
    LET sc == scanLog(log, lo, hi, maxBytes, <<>>, 0)
    IN IF EntriesShort(Len(sc.ents), lo, hi, maxBytes, sc.size)
       THEN [err |-> "ErrUnavailable", ents |-> <<>>]
       ELSE [err |-> "nil", ents |-> sc.ents]

\* Replica.Term(i)
Term(cache, e, d, i) ==
    LET r == Entries(e.log, i, i + 1, 0)
    IN IF r.err = "ErrUnavailable"
       THEN IF i = raftTruncatedState(cache, e, d).index
            THEN [err |-> "nil", term |-> raftTruncatedState(cache, e, d).term]
            ELSE [err |-> "ErrUnavailable", term |-> 0]
       ELSE IF Len(r.ents) = 0 THEN [err |-> "nil", term |-> 0]
       ELSE [err |-> "nil", term |-> r.ents[1].term]

\* the keys newReplicaDataIterator visits for a descriptor: every range-ID
\* local key (hard state, log, last index, applied index, truncated state,
\* lease, stats) and the keys of the span; here as the engine restricted to them
ReplicaData(e, d) ==
    [e EXCEPT !.kv = [k \in UserKeys |-> IF k \in SpanKeys(d) THEN e.kv[k] ELSE "nil"]]

\* Replica.Snapshot of a replica with engine e and descriptor d
Snapshot(e, d) ==
    [ok |-> TRUE,
     index |-> loadAppliedIndex(e, d),
     term |-> Term(NoTS, e, d, loadAppliedIndex(e, d)).term,
     desc |-> d,
     kv |-> ReplicaData(e, d)]

(* ---- writes ------------------------------------------------------------*)

\* Replica.SetHardState: one MVCCPutProto of the hard state key
SetHardState(e, st) == [e EXCEPT !.hs = [st EXCEPT !.found = TRUE]]

\* the log after the batch of Append: every entry put at its log key, then
\* the keys lastIndex+1 .. prevLastIndex deleted
AppendLog(log, ents, prevLastIndex) ==
    LET last == ents[Len(ents)].index
        put == {ents[j].index : j \in 1..Len(ents)}
        at(i) == CHOOSE j \in 1..Len(ents) : ents[j].index = i
    IN [i \in DOMAIN log |->
          IF i \in put THEN Entry(ents[at(i)].term, ents[at(i)].size)
          ELSE IF i > last /\ i <= prevLastIndex THEN NoEntry
          ELSE log[i]]

\* the engine after the batch of Append committed
AppendBatch(e, ents, prevLastIndex) ==
    [e EXCEPT !.log = AppendLog(e.log, ents, prevLastIndex),
              !.li = SomeInt(ents[Len(ents)].index)]

\* the steps of Append that return an error
AppendFailPoints == {"MVCCPutProto", "MVCCDelete", "setLastIndex", "Commit"}

\* a variant of the batch of ApplySnapshot that lets the snapshot's hard state
\* key through instead of restoring the saved one
ApplySnapshotBatch_NoRestore(e, snap) ==
    [hs |-> snap.kv.hs,
     li |-> SomeInt(snap.index),
     ai |-> snap.kv.ai,
     ts |-> snap.kv.ts,
     log |-> snap.kv.log,
     lease |-> snap.kv.lease,
     stats |-> snap.kv.stats,
     kv |-> [k \in UserKeys |->
               IF k \in SpanKeys(snap.desc) THEN snap.kv.kv[k] ELSE e.kv[k]]]

\* the engine after the batch of ApplySnapshot committed: every key of the
\* snapshot descriptor's replica data cleared, the snapshot's keys put, the
\* saved HardState restored (deleted when there was none), the last index
\* key set to the snapshot index
ApplySnapshotBatch(e, snap) ==
    [hs |-> e.hs,
     li |-> SomeInt(snap.index),
     ai |-> snap.kv.ai,
     ts |-> snap.kv.ts,
     log |-> snap.kv.log,
     lease |-> snap.kv.lease,
     stats |-> snap.kv.stats,
     kv |-> [k \in UserKeys |->
               IF k \in SpanKeys(snap.desc) THEN snap.kv.kv[k] ELSE e.kv[k]]]

\* the steps of ApplySnapshot that return an error, in program order
ApplySnapshotFailPoints ==
    <<"Unmarshal", "MVCCGet", "Clear", "Put", "restoreHardState",
      "loadLeaderLease", "newRangeStats", "setLastIndex", "Commit",
      "setDesc", "updateRangeInfo">>

\* the position of a failing step; the call succeeds at "nil"
FailPos(f) ==
    IF f = "nil" THEN Len(ApplySnapshotFailPoints) + 1
    ELSE CHOOSE i \in 1..Len(ApplySnapshotFailPoints) : ApplySnapshotFailPoints[i] = f

\* ApplySnapshot got past the step named at
Passed(f, at) == FailPos(f) > FailPos(at)

(* ---- the data of the MultiRaft loop ------------------------------------*)

\* s.nodeID (and s.storeID) of the node of the loop
nodeID == 1
\* the range of the loop
groupID == 1
\* the group ID of a coalesced heartbeat
noGroup == 0
GroupIDs == {groupID}
\* the other nodes of the cluster
Peers == {2, 3}
NodeIDs == {nodeID} \cup Peers
\* the replica IDs this store has had in the range: the first one, and the
\* one it gets when it is removed and added again
SelfReplicaIDs == {1, 4}
\* the replica on peer n has replica ID n
ReplicaIDs == SelfReplicaIDs \cup Peers

\* ReplicaDescriptor(groupID, replicaID).NodeID; the zero descriptor has node 0
NodeOfReplica(r) == IF r \in SelfReplicaIDs THEN nodeID ELSE r

\* the group struct; ok is FALSE when s.groups has no entry. inc tells the
\* group objects apart (a closure keeps the object it captured)
NoGroup ==
    [ok |-> FALSE, inc |-> 0, replicaID |-> 0, leader |-> 0, writing |-> FALSE,
     waitForCallback |-> 0, nodeIDs |-> {}, pending |-> {}, committedTerm |-> 0]

\* the node struct; ok is FALSE when s.nodes has no entry
NoNode == [ok |-> FALSE, groupIDs |-> {}]

\* the store's Replica with the state the storage persists for it; ok is
\* FALSE when s.replicas has no entry
NoReplica ==
    [ok |-> FALSE, init |-> FALSE, appliedIndex |-> 0, commit |-> 0, lastIndex |-> 0,
     members |-> {}]
\* the placeholder replica GroupStorage creates
UninitReplica == [NoReplica EXCEPT !.ok = TRUE]
\* the replica of a range the store holds from the start: replicas 1 (here) and 2
FirstReplica ==
    [ok |-> TRUE, init |-> TRUE, appliedIndex |-> raftInitialLogIndex,
     commit |-> raftInitialLogIndex, lastIndex |-> raftInitialLogIndex,
     members |-> {1, 2}]

NoSnap == [ok |-> FALSE, index |-> 0, members |-> {}]
\* the data of a snapshot message: whether it unmarshals as RaftSnapshotData,
\* and the span of its range descriptor
NoSnapshotData == [ok |-> FALSE, parses |-> FALSE, desc |-> UninitDesc]
NoSoftState == [ok |-> FALSE, lead |-> 0]
NoHS == [ok |-> FALSE, commit |-> 0]
NoRange == [lo |-> 1, hi |-> 0]

\* the consensus library's group: what it has applied, committed, knows to
\* be persisted, its leader, and what its last advanced Ready reported
NoRaft ==
    [ok |-> FALSE, id |-> 0, applied |-> 0, committed |-> 0, stable |-> 0,
     hsCommit |-> 0, lead |-> 0, prevLead |-> 0, snapshot |-> NoSnap,
     inFlight |-> FALSE, beat |-> "none", term |-> 0, proposals |-> {}]

\* raft.Ready of the group
NoReady ==
    [ok |-> FALSE, softState |-> NoSoftState, hardState |-> NoHS, snapshot |-> NoSnap,
     entries |-> NoRange, committedEntries |-> NoRange, messages |-> <<>>]

\* the write task: the request on writeTask.in, a response on writeTask.out
NoWriteRequest == [ok |-> FALSE, state |-> NoHS, snapshot |-> NoSnap, entries |-> NoRange]
IdleWriteTask == [in |-> NoWriteRequest, out |-> FALSE]

NoCallback == [ok |-> FALSE, inc |-> 0, type |-> "none", replica |-> 0, err |-> "nil"]
\* the request a step of the loop handled, with the replica IDs whose
\* descriptors handleMessage put into the replica descriptor cache
\* and, for a MsgSnap, the snapshot data it carries; err is the error of the
\* createGroup the step ran
NoRaftRequest ==
    [type |-> "none", from |-> 0, to |-> 0, cached |-> {},
     snapshot |-> NoSnapshotData, err |-> "nil"]

\* the command IDs a client of this node proposes with: a command through
\* SubmitCommand and a membership change through ChangeGroupMembership
CommandIDs == {1, 2}

\* a proposal: not made ("none"), blocked in the send on proposalChan
\* ("chan"), or received by the loop ("taken"); ch is what its channel of
\* capacity one holds
NoProposal == [at |-> "none", ch |-> "empty"]

\* a nil key
NilKey == 0 - 1

\* no replica found
NoSpan == [start |-> NilKey, end |-> NilKey]

NoLookup == [called |-> FALSE, start |-> NilKey, end |-> NilKey, rng |-> NoSpan]

NoVerify ==
    [called |-> FALSE, start |-> NilKey, end |-> NilKey, checkEndKey |-> FALSE,
     err |-> "nil"]

\* roachpb.ZeroTimestamp
ZeroTimestamp == [WallTime |-> 0, Logical |-> 0]

\* a batch without requests; Txn says whether the batch has a transaction
NoBatch == [Timestamp |-> ZeroTimestamp, Txn |-> FALSE, Requests |-> <<>>]

\* a nil error; for a WriteTooOldError its ExistingTimestamp, for a
\* WriteIntentError its Intents, its Resolved flag and its ErrorIndex
\* (0: it has none)
NoError == [type |-> "nil", ExistingTimestamp |-> ZeroTimestamp, Intents |-> <<>>,
            Resolved |-> FALSE, index |-> 0]

\* Store.Send has not been called: the store's clock (its physical time
\* and its state) and its retry options, the batch, the retry state, the
\* numbers of calls of the replica and of backoff waits so far, the error
\* of the replica's last call, what conflict resolution made of it (the
\* pushes built, their `now`, the push error, the intents handed to intent
\* resolution) and the error the switch of Send saw or Send returned
NoSend ==
    [pc |-> "idle", maxOffset |-> 0, physical |-> 0, clock |-> ZeroTimestamp,
     maxRetries |-> 0, ba |-> NoBatch, currentAttempt |-> 0, isReset |-> TRUE,
     invoked |-> 0, waits |-> 0, reply |-> NoError, pushes |-> <<>>,
     now |-> ZeroTimestamp, pushErr |-> "nil", resolveIntents |-> <<>>,
     err |-> NoError]

\* an engine without keys: ident is the cluster ID of the StoreIdent under
\* StoreIdentKey (0: no such key), others says whether it holds other keys
NoKeys == [ident |-> 0, others |-> FALSE]

\* Store.Bootstrap has not been called
NoBoot ==
    [called |-> FALSE, NodeID |-> 0, before |-> NoKeys, ClusterID |-> 0,
     fails |-> "none", after |-> NoKeys, err |-> "nil"]

\* BatchRequest.Split has not been called
NoSplit == [called |-> FALSE, Requests |-> <<>>, parts |-> <<>>]

\* the range IDs and the replica sets of the store's ranges
RangeIDs == {1, 2, 3}
ReplicaSets == {"ab", "ac"}

\* the descriptor GroupStorage gives a new replica: only the range ID is known
EmptyDesc == [start |-> 0, end |-> 0, reps |-> "none"]

\* NewStore: the maps and the btree are empty
NewStore ==
    [descs |-> [id \in RangeIDs |-> EmptyDesc], replicas |-> {}, replicasByKey |-> {},
     uninitReplicas |-> {}, removed |-> 0]

\* no operation on the indexes yet: the last operation that changed them
NoStoreOp == [name |-> "NewStore", err |-> "nil"]

\* the loop before start
LoopIdle ==
    /\ group = NoGroup
    /\ nodes = [n \in NodeIDs |-> NoNode]
    /\ created = 0
    /\ writingGroups = NoReady
    /\ writeTask = IdleWriteTask
    /\ pendingEvents = <<>>
    /\ events = <<>>
    /\ callbackChan = NoCallback
    /\ multiNode = NoRaft
    /\ raftLog = <<>>
    /\ sent = <<>>
    /\ stepped = <<>>
    /\ handled = NoRaftRequest
    /\ panicked = FALSE
    /\ loopPc = "select"
    /\ handedIndex = 0
    /\ ticks = 0
    /\ proposals = [id \in CommandIDs |-> NoProposal]
    /\ proposed = {}
    /\ elections = 0
    /\ lookup = NoLookup
    /\ verified = NoVerify
    /\ send = NoSend
    /\ booted = NoBoot
    /\ splitCall = NoSplit
    /\ store = NewStore
    /\ storeOp = NoStoreOp

\* the loop before start, the store holding its replica of the range and no
\* other range
MRIdle ==
    /\ LoopIdle
    /\ replica = FirstReplica
    /\ replicasByKey = {}
    /\ tombstone = 0

(* ---- the callers of the storage ----------------------------------------*)

\* an engine of another store's replica of the range, as a log truncation at
\* t, an applied index a and a last index l leave it (t <= a <= l)
SenderEngine(t, a, l, d) ==
    [hs |-> [found |-> TRUE, term |-> raftInitialLogTerm + 1, vote |-> 1, commit |-> a],
     li |-> SomeInt(l),
     ai |-> SomeInt(a),
     ts |-> IF t = raftInitialLogIndex THEN NoTS
            ELSE [ok |-> TRUE, index |-> t, term |-> raftInitialLogTerm + 1],
     log |-> [i \in LogIndices |->
                IF t < i /\ i <= l THEN Entry(raftInitialLogTerm + 1, 1) ELSE NoEntry],
     lease |-> "L1",
     stats |-> "S1",
     kv |-> [k \in UserKeys |-> IF k \in SpanKeys(d) THEN "b" ELSE "nil"]]

\* the descriptors a snapshot may carry: the whole key space or its first half
SnapshotDescs == {Desc(1, 3), Desc(1, 2)}

\* the snapshots the leader's replica can produce
Snapshots ==
    {Snapshot(SenderEngine(x[1], x[2], x[3], x[4]), x[4]) :
        x \in {y \in {raftInitialLogIndex, raftInitialLogIndex + 1}
                     \X LogIndices \X LogIndices \X SnapshotDescs :
                 y[1] <= y[2] /\ y[2] <= y[3]}}

\* the entries lo..hi as one leader wrote them
EntryRun(lo, hi, t, s) ==
    [j \in 1..(hi - lo + 1) |-> [index |-> lo + j - 1, term |-> t, size |-> s]]

\* the hard states a ready batch may carry: changed, never going back
HardStates(cur, lo, hi) ==
    {[found |-> TRUE, term |-> t, vote |-> v, commit |-> c] :
        t \in {x \in Terms : x >= cur.term}, v \in {2}, c \in lo..hi}
    \ {[cur EXCEPT !.found = TRUE]}

\* the group write requests the consensus library can hand over for the
\* replica as it stands: entries after the commit index, a commit index
\* within the log, a snapshot beyond the commit index together with the hard
\* state that commits it
ReadyRequests ==
    LET cur == InitialStateHardState(engine, desc)
        last == lastIndex
    IN  {[state |-> h, snapshot |-> NoSnapshot, entries |-> <<>>] :
            h \in HardStates(cur, cur.commit, last)}
        \cup
        {[state |-> [found |-> TRUE, term |-> t, vote |-> 2, commit |-> sn.index],
          snapshot |-> sn, entries |-> <<>>] :
            t \in {x \in Terms : x >= cur.term},
            sn \in {x \in Snapshots : x.index > cur.commit}}
        \cup
        (IF ~isInitialized(desc) THEN {}
         ELSE UNION {
            {[state |-> h, snapshot |-> NoSnapshot,
              entries |-> EntryRun(x[1], x[2], x[3], x[3] - raftInitialLogTerm)] :
                h \in HardStates(cur, cur.commit, x[2])
                      \cup (IF engine.hs.found THEN {NoHardState} ELSE {})} :
            x \in {y \in LogIndices \X LogIndices \X Terms :
                     /\ y[1] > cur.commit /\ y[1] <= last + 1 /\ y[1] <= y[2]
                     /\ y[3] >= cur.term}})

\* the first step of the write task for a request, from step k on:
\* hard state, then snapshot, then entries
NextStep(req, k) ==
    IF k <= 1 /\ req.state.found THEN "SetHardState"
    ELSE IF k <= 2 /\ req.snapshot.ok THEN "ApplySnapshot"
    ELSE IF k <= 3 /\ Len(req.entries) > 0 THEN "Append"
    ELSE "idle"

NoOp == [op |-> "none", err |-> "nil"]
NoRequest == [state |-> NoHardState, snapshot |-> NoSnapshot, entries |-> <<>>]
NoEntriesCall == [lo |-> 0, hi |-> 0, maxBytes |-> 0, err |-> "nil", ents |-> <<>>]

\* a replica of an initialized range as bootstrap or a split leaves it, and
\* the placeholder replica GroupStorage makes for a range not yet known
InitialReplicas ==
    {[engine |-> [EmptyEngine EXCEPT !.lease = "L0", !.stats = "S0",
                                     !.kv = [k \in UserKeys |-> "a"]],
      desc |-> Desc(1, 3), lease |-> "L0", stats |-> "S0"],
     [engine |-> EmptyEngine, desc |-> UninitDesc, lease |-> "nil", stats |-> "nil"]}

StorageInit ==
    \E r \in InitialReplicas :
        /\ engine = r.engine
        /\ desc = r.desc
        /\ lease = r.lease
        /\ stats = r.stats
        /\ truncatedState = NoTS
        /\ lastIndex = loadLastIndex(r.engine, NoTS, r.desc)
        /\ appliedIndex = loadAppliedIndex(r.engine, r.desc)
        /\ wpc = "idle"
        /\ wreq = NoRequest
        /\ lastOp = NoOp
        /\ entriesCall = NoEntriesCall
    /\ MRIdle

\* createGroup asks the storage for its initial state
InitialState ==
    /\ wpc = "idle"
    /\ lastIndex' = InitialStateLastIndex(engine, desc, lastIndex)
    /\ lastOp' = [NoOp EXCEPT !.op = "InitialState"]
    /\ UNCHANGED <<engine, appliedIndex, desc, lease, stats, truncatedState,
                   wpc, wreq, entriesCall>>
    /\ UNCHANGED mrVars

\* the consensus library asks for the first index, which fills the cache
CallFirstIndex ==
    /\ wpc # "failed"
    /\ truncatedState' = cacheAfterTruncatedState(truncatedState, engine, desc)
    /\ truncatedState' # truncatedState
    /\ lastOp' = [NoOp EXCEPT !.op = "FirstIndex"]
    /\ UNCHANGED <<engine, lastIndex, appliedIndex, desc, lease, stats,
                   wpc, wreq, entriesCall>>
    /\ UNCHANGED mrVars

\* the write task takes the group's part of a write request
WriteBegin ==
    /\ wpc = "idle"
    /\ \E req \in ReadyRequests :
        /\ wreq' = req
        /\ wpc' = NextStep(req, 1)
    /\ lastOp' = [NoOp EXCEPT !.op = "WriteBegin"]
    /\ UNCHANGED <<engine, lastIndex, appliedIndex, desc, lease, stats,
                   truncatedState, entriesCall>>
    /\ UNCHANGED mrVars

\* the write task persists the hard state
WriteHardState ==
    /\ wpc = "SetHardState"
    /\ \E f \in {"nil", "MVCCPutProto"} :
        /\ engine' = IF f = "nil" THEN SetHardState(engine, wreq.state) ELSE engine
        /\ wpc' = IF f = "nil" THEN NextStep(wreq, 2) ELSE "failed"
        /\ wreq' = IF wpc' \in {"idle", "failed"} THEN NoRequest ELSE wreq
        /\ lastOp' = [NoOp EXCEPT !.op = "SetHardState", !.err = f]
    /\ UNCHANGED <<lastIndex, appliedIndex, desc, lease, stats, truncatedState,
                   entriesCall>>
    /\ UNCHANGED mrVars

\* Replica.ApplySnapshot, failing at step f or succeeding
ApplySnapshot(snap, f) ==
    /\ engine' = IF Passed(f, "Commit") THEN ApplySnapshotBatch(engine, snap) ELSE engine
    /\ stats' = IF Passed(f, "newRangeStats") THEN ApplySnapshotBatch(engine, snap).stats
                ELSE stats
    /\ lastIndex' = IF Passed(f, "Commit") THEN snap.index ELSE lastIndex
    /\ appliedIndex' = IF Passed(f, "Commit") THEN snap.index ELSE appliedIndex
    /\ IF Passed(f, "setDesc") THEN desc' = snap.desc
       ELSE IF f = "setDesc" THEN desc' \in {desc, snap.desc}
       ELSE desc' = desc
    /\ lease' = IF f = "nil" THEN ApplySnapshotBatch(engine, snap).lease ELSE lease
    /\ lastOp' = [NoOp EXCEPT !.op = "ApplySnapshot", !.err = f]
    /\ UNCHANGED truncatedState

\* the write task applies the snapshot
WriteSnapshot ==
    /\ wpc = "ApplySnapshot"
    /\ \E f \in {"nil"} \cup {ApplySnapshotFailPoints[i] : i \in DOMAIN ApplySnapshotFailPoints} :
        /\ ApplySnapshot(wreq.snapshot, f)
        /\ wpc' = IF f = "nil" THEN NextStep(wreq, 3) ELSE "failed"
        /\ wreq' = IF wpc' \in {"idle", "failed"} THEN NoRequest ELSE wreq
    /\ UNCHANGED entriesCall
    /\ UNCHANGED mrVars

\* Replica.Append of a non-empty list, failing at step f or succeeding
AppendEntries(ents, f) ==
    /\ engine' = IF f = "nil" THEN AppendBatch(engine, ents, lastIndex) ELSE engine
    /\ lastIndex' = IF f = "nil" THEN ents[Len(ents)].index ELSE lastIndex
    /\ lastOp' = [NoOp EXCEPT !.op = "Append", !.err = f]
    /\ UNCHANGED <<appliedIndex, desc, lease, stats, truncatedState>>

\* the write task appends the entries
WriteEntries ==
    /\ wpc = "Append"
    /\ \E f \in {"nil"} \cup AppendFailPoints :
        /\ AppendEntries(wreq.entries, f)
        /\ wpc' = IF f = "nil" THEN "idle" ELSE "failed"
        /\ wreq' = NoRequest
    /\ UNCHANGED entriesCall
    /\ UNCHANGED mrVars

\* the replica applies the next committed command and moves the applied index
ApplyCommand ==
    /\ wpc = "idle"
    /\ appliedIndex < InitialStateHardState(engine, desc).commit
    /\ appliedIndex' = appliedIndex + 1
    /\ engine' = [engine EXCEPT !.ai = SomeInt(appliedIndex + 1)]
    /\ lastOp' = [NoOp EXCEPT !.op = "ApplyCommand"]
    /\ UNCHANGED <<lastIndex, desc, lease, stats, truncatedState, wpc, wreq, entriesCall>>
    /\ UNCHANGED mrVars

\* the consensus library reads entries [lo, hi) with a size limit
CallEntries ==
    /\ wpc # "failed"
    /\ \E lo \in raftInitialLogIndex..(MaxIndex + 1), hi \in raftInitialLogIndex..(MaxIndex + 1),
          maxBytes \in 0..MaxBytes :
        /\ lo <= hi
        /\ entriesCall' = [lo |-> lo, hi |-> hi, maxBytes |-> maxBytes,
                           err |-> Entries(engine.log, lo, hi, maxBytes).err,
                           ents |-> Entries(engine.log, lo, hi, maxBytes).ents]
    /\ lastOp' = [NoOp EXCEPT !.op = "Entries"]
    /\ UNCHANGED <<engine, lastIndex, appliedIndex, desc, lease, stats,
                   truncatedState, wpc, wreq>>
    /\ UNCHANGED mrVars

\* the logs Append builds on a fresh replica: the run 11..l, entry sizes 1 or 2
StoredLogs ==
    {[i \in LogIndices |-> IF i <= l THEN Entry(raftInitialLogTerm + 1, sz[i]) ELSE NoEntry] :
        l \in raftInitialLogIndex..MaxIndex, sz \in [LogIndices -> {1, 2}]}

\* a replica holding one of the stored logs, nothing else in progress
EntriesInit ==
    /\ \E L \in StoredLogs :
        /\ engine = [EmptyEngine EXCEPT !.log = L,
                       !.li = SomeInt(raftInitialLogIndex + Cardinality({i \in LogIndices : L[i].ok})),
                       !.lease = "L0", !.stats = "S0", !.kv = [k \in UserKeys |-> "a"]]
        /\ lastIndex = raftInitialLogIndex + Cardinality({i \in LogIndices : L[i].ok})
    /\ desc = Desc(1, 3)
    /\ lease = "L0"
    /\ stats = "S0"
    /\ truncatedState = NoTS
    /\ appliedIndex = raftInitialLogIndex
    /\ wpc = "idle"
    /\ wreq = NoRequest
    /\ lastOp = NoOp
    /\ entriesCall = NoEntriesCall
    /\ MRIdle

StorageNext ==
    \/ InitialState
    \/ CallFirstIndex
    \/ WriteBegin
    \/ WriteHardState
    \/ WriteSnapshot
    \/ WriteEntries
    \/ ApplyCommand

vars == <<storageVars, mrVars>>

SpecStorage == StorageInit /\ [][StorageNext]_vars

SpecEntries == EntriesInit /\ [][CallEntries]_vars

(***************************************************************************)
(* THE MULTIRAFT LOOP  (multiraft/multiraft.go)                            *)
(***************************************************************************)

\* the entries the range commits: commands, and the change that adds the
\* replica on node 3
EntryKinds ==
    {[type |-> "EntryNormal", replica |-> 0, cmd |-> 0],
     [type |-> "ConfChangeAddNode", replica |-> 3, cmd |-> 0]}

\* the entry a proposal of this node becomes: encodeCommand puts the
\* command ID into the entry, ChangeGroupMembership into the change's context
ProposalEntry(id) ==
    IF id = 1 THEN [type |-> "EntryNormal", replica |-> 0, cmd |-> id]
    ELSE [type |-> "ConfChangeAddNode", replica |-> 3, cmd |-> id]

\* the entry of kind k as the leader of term t appends it
RaftEntry(k, t) == [type |-> k.type, replica |-> k.replica, cmd |-> k.cmd, term |-> t]

MaxRaftIndex == raftInitialLogIndex + MaxCommits

\* the term of the range's last entry, the initial term without one
LastTerm ==
    IF Len(raftLog) = 0 THEN raftInitialLogTerm ELSE raftLog[Len(raftLog)].term

\* the part of the loop's state that createGroup and removeGroup work on
LoopState ==
    [group |-> group, nodes |-> nodes, multiNode |-> multiNode,
     replica |-> replica, created |-> created, err |-> "nil",
     proposals |-> proposals, proposed |-> {}]

\* a variant of removePending that leaves the channel alone
Finish_Silent(p, err) == p

\* a variant of removePending that sends whether or not the proposal was
\* finished before
Finish_Again(p, err) == [p EXCEPT !.ch = err]

\* the channel part of removePending: the error goes to the proposal's
\* channel unless the proposal was finished before
Finish(p, err) == IF p.ch = "empty" THEN [p EXCEPT !.ch = err] ELSE p

\* removePending for each proposal of S
FinishAll(props, S, err) ==
    [id \in CommandIDs |-> IF id \in S THEN Finish(props[id], err) ELSE props[id]]

\* a variant of propose that never holds a proposal aside
HoldsAside_Never(g) == FALSE

\* propose holds the proposal aside: a committed membership change of the
\* group waits for its callback
HoldsAside(g) == g.waitForCallback > 0

\* state.propose of proposal id in the loop state st: without the group, or
\* with this node not in g.nodeIDs, the proposal fails; with a callback
\* pending it is recorded in g.pending; otherwise it is recorded and its fn
\* hands it to the library
propose(st, id) ==
    IF ~st.group.ok \/ nodeID \notin st.group.nodeIDs
    THEN [st EXCEPT !.proposals[id] = Finish(@, "ErrGroupDeleted")]
    ELSE IF HoldsAside(st.group)
    THEN [st EXCEPT !.group.pending = @ \cup {id}]
    ELSE [st EXCEPT !.group.pending = @ \cup {id},
                    !.multiNode.proposals = @ \cup {id},
                    !.proposed = @ \cup {id}]

\* state.propose for every proposal of S, as the range over g.pending does
RECURSIVE proposeAll(_, _)
proposeAll(st, S) ==
    IF S = {} THEN st
    ELSE LET id == CHOOSE x \in S : TRUE
         IN proposeAll(propose(st, id), S \ {id})

\* state.addNode for each node of S: an unknown node is created; with a
\* group its ID is registered with the node
addNodes(ns, S, withGroup) ==
    [n \in NodeIDs |->
        IF n \in S
        THEN [ok |-> TRUE,
              groupIDs |-> ns[n].groupIDs \cup (IF withGroup THEN {groupID} ELSE {})]
        ELSE ns[n]]

\* state.removeGroup: the library's group is removed, the group's ID is
\* unregistered from the nodes in g.nodeIDs, the group is deleted
removeGroup(st) ==
    IF ~st.group.ok THEN st
    ELSE [st EXCEPT
            !.proposals = FinishAll(@, st.group.pending, "ErrGroupDeleted"),
            !.multiNode = NoRaft,
            !.nodes = [n \in NodeIDs |->
                         IF n \in st.group.nodeIDs
                         THEN [st.nodes[n] EXCEPT !.groupIDs = @ \ {groupID}]
                         ELSE st.nodes[n]],
            !.group = NoGroup]

\* a variant of GroupStorage that does not look at the tombstone
GroupStorageFails_Never(rep, replicaID) == FALSE

\* Store.GroupStorage returns ErrGroupDeleted: the store has no replica of
\* the range, and a tombstone whose NextReplicaID is beyond the replica ID
GroupStorageFails(rep, replicaID) ==
    ~rep.ok /\ tombstone # 0 /\ replicaID # 0 /\ replicaID < tombstone

\* state.createGroup(groupID, replicaID): GroupStorage (which makes the
\* placeholder replica), InitialState's ConfState, the replica ID, the
\* library's group with Applied from the state machine, the group object,
\* addNode for every node of the ConfState
createGroup(st, replicaID) ==
    IF st.group.ok
    THEN [st EXCEPT !.err = IF replicaID # 0 /\ st.group.replicaID # replicaID
                            THEN "already exists" ELSE "nil"]
    ELSE IF GroupStorageFails(st.replica, replicaID)
    THEN [st EXCEPT !.err = "ErrGroupDeleted"]
    ELSE LET rep == IF st.replica.ok THEN st.replica ELSE UninitReplica
             cs == rep.members
             mine == {r \in cs : NodeOfReplica(r) = nodeID}
             rid == IF replicaID # 0 THEN replicaID
                    ELSE IF mine # {} THEN CHOOSE r \in mine : TRUE
                    ELSE 0
             inconsistent == replicaID # 0 /\ \E r \in mine : replicaID < r
         IN IF inconsistent \/ rid = 0
            THEN [st EXCEPT !.replica = rep,
                            !.err = IF inconsistent THEN "inconsistent replica ID"
                                    ELSE "no replica ID"]
            ELSE [st EXCEPT
                    !.replica = rep,
                    !.multiNode = [NoRaft EXCEPT !.ok = TRUE, !.id = rid,
                                      !.applied = rep.appliedIndex,
                                      !.committed = rep.commit,
                                      !.stable = rep.lastIndex,
                                      !.hsCommit = rep.commit,
                                      !.term = LastTerm],
                    !.group = [NoGroup EXCEPT !.ok = TRUE, !.inc = st.created + 1,
                                  !.replicaID = rid,
                                  !.nodeIDs = {NodeOfReplica(r) : r \in cs}],
                    !.nodes = addNodes(st.nodes, {NodeOfReplica(r) : r \in cs}, TRUE),
                    !.created = st.created + 1]

\* the loop takes on the state st and reports what it sent and stepped
LoopBecomes(st, req, snt, stp) ==
    /\ group' = st.group
    /\ nodes' = st.nodes
    /\ multiNode' = st.multiNode
    /\ replica' = st.replica
    /\ created' = st.created
    /\ handled' = [req EXCEPT !.err = st.err]
    /\ proposals' = st.proposals
    /\ proposed' = st.proposed
    /\ sent' = snt
    /\ stepped' = stp

\* Store.ReplicaIDForStore finds a replica of the store in the descriptor
ReplicaIDForStore(storeID) ==
    IF replica.ok /\ \E r \in replica.members : NodeOfReplica(r) = storeID
    THEN [ok |-> TRUE, id |-> CHOOSE r \in replica.members : NodeOfReplica(r) = storeID]
    ELSE [ok |-> FALSE, id |-> 0]

\* sendMessage: the RaftMessageRequest handed to Transport.Send for the
\* message msg of group g (noGroup for a coalesced heartbeat)
sendMessage(g, msg) ==
    [type |-> msg.type, to |-> msg.to, from |-> msg.from, index |-> msg.index,
     groupID |-> g]

\* fanoutHeartbeat reads s.groups[groupID].leader of a group that a node has
\* registered; with no such group this is a nil dereference
DanglingGroup(f) == nodes[f].ok /\ groupID \in nodes[f].groupIDs /\ ~group.ok

\* a variant of fanoutHeartbeat that propagates whoever leads the group
HeartbeatFansOut_AnyLeader(f) == f # nodeID

\* fanoutHeartbeat propagates to the group: the sending node leads it, as
\* far as this node knows, and is not this node
HeartbeatFansOut(f) == NodeOfReplica(group.leader) = f /\ f # nodeID

\* fanoutHeartbeatResponse propagates to the group: this node leads it, as
\* far as it knows, and the response is not its own
HeartbeatRespFansOut(f) == NodeOfReplica(group.leader) = nodeID /\ f # nodeID

\* a variant of the loop that takes a request while a batch is with the
\* write task
AtSelect_AlsoWriting == ~panicked

\* a variant of the loop that sends its buffered events on s.Events before
\* it goes to its select
AtSelect_EventsFirst == loopPc = "select" /\ ~panicked /\ pendingEvents = <<>>

\* the loop is at its select and has not panicked
AtSelect == loopPc = "select" /\ ~panicked

\* handleMessage of a coalesced heartbeat from node f: fanoutHeartbeat
HandleHeartbeat ==
    /\ AtSelect
    /\ \E f \in NodeIDs :
        LET req == [NoRaftRequest EXCEPT !.type = "MsgHeartbeat", !.from = f, !.to = nodeID]
            fans == /\ nodes[f].ok /\ groupID \in nodes[f].groupIDs
                    /\ HeartbeatFansOut(f)
                    /\ ReplicaIDForStore(f).ok /\ ReplicaIDForStore(nodeID).ok
        IN IF DanglingGroup(f)
           THEN /\ panicked' = TRUE
                /\ LoopBecomes(LoopState, req, <<>>, <<>>)
           ELSE /\ panicked' = FALSE
                /\ LoopBecomes(
                     [LoopState EXCEPT !.nodes =
                        IF nodes[f].ok THEN nodes ELSE addNodes(nodes, {f}, FALSE)],
                     req,
                     <<sendMessage(noGroup, [type |-> "MsgHeartbeatResp", to |-> f,
                                             from |-> nodeID, index |-> 0])>>,
                     IF fans THEN <<[type |-> "MsgHeartbeat",
                                     to |-> ReplicaIDForStore(nodeID).id,
                                     from |-> ReplicaIDForStore(f).id]>>
                     ELSE <<>>)
    /\ UNCHANGED <<writingGroups, writeTask, pendingEvents, events, callbackChan,
                   raftLog, loopPc, handedIndex>>
    /\ UNCHANGED <<storageVars, ticks, replicasByKey, tombstone, elections, lookup, verified, storeVars>>

\* handleMessage of a coalesced heartbeat response from node f:
\* fanoutHeartbeatResponse
HandleHeartbeatResp ==
    /\ AtSelect
    /\ \E f \in NodeIDs :
        LET req == [NoRaftRequest EXCEPT !.type = "MsgHeartbeatResp", !.from = f,
                                         !.to = nodeID]
            fans == /\ groupID \in nodes[f].groupIDs
                    /\ HeartbeatRespFansOut(f)
                    /\ ReplicaIDForStore(f).ok /\ ReplicaIDForStore(nodeID).ok
        IN IF DanglingGroup(f)
           THEN /\ panicked' = TRUE
                /\ LoopBecomes(LoopState, req, <<>>, <<>>)
           ELSE /\ panicked' = FALSE
                /\ LoopBecomes(LoopState, req, <<>>,
                     IF nodes[f].ok /\ fans
                     THEN <<[type |-> "MsgHeartbeatResp",
                             to |-> ReplicaIDForStore(nodeID).id,
                             from |-> ReplicaIDForStore(f).id]>>
                     ELSE <<>>)
    /\ UNCHANGED <<writingGroups, writeTask, pendingEvents, events, callbackChan,
                   raftLog, loopPc, handedIndex>>
    /\ UNCHANGED <<storageVars, ticks, replicasByKey, tombstone, elections, lookup, verified, storeVars>>

\* a variant of handleMessage that takes no replica ID to be stale
StaleReplicaID_Never(g, t) == FALSE

\* handleMessage: the message is for an older replica ID than the group's
StaleReplicaID(g, t) == g.ok /\ g.replicaID > t

\* handleMessage: the message is for a newer replica ID than the group's
NewerReplicaID(g, t) == g.ok /\ g.replicaID < t

\* handleMessage of a message r of the range that is no heartbeat and has
\* passed the snapshot check: the descriptors of both replicas are cached; then the
\* message is dropped when t is stale, the group re-created when t is
\* newer, created when unknown; then the message is stepped
HandleRequest(r) ==
    LET t == r.to
        req == [r EXCEPT !.cached = {r.from, t}]
        st == IF ~group.ok THEN createGroup(LoopState, t)
              ELSE IF NewerReplicaID(group, t)
              THEN createGroup(removeGroup(LoopState), t)
              ELSE LoopState
    IN /\ (~group.ok \/ NewerReplicaID(group, t)) => created < MaxIncarnations
       /\ IF StaleReplicaID(group, t)
          THEN LoopBecomes(LoopState, req, <<>>, <<>>)
          ELSE LoopBecomes(st, req, <<>>,
                 IF st.err = "nil"
                 THEN <<[type |-> r.type, from |-> r.from, to |-> t]>>
                 ELSE <<>>)

\* handleMessage of a MsgApp of the range from replica 2 to the replica ID t
\* of this store
HandleMessage ==
    /\ AtSelect
    /\ \E t \in SelfReplicaIDs :
        HandleRequest([NoRaftRequest EXCEPT !.type = "MsgApp", !.from = 2, !.to = t])
    /\ UNCHANGED <<writingGroups, writeTask, pendingEvents, events, callbackChan,
                   raftLog, panicked, loopPc, handedIndex>>
    /\ UNCHANGED <<storageVars, ticks, replicasByKey, tombstone, elections, lookup, verified, storeVars>>

\* the spans a range can have
Spans == {d \in [start : 0..(MaxKey - 1), end : 1..MaxKey] : d.start < d.end}

\* the snapshot data a MsgSnap can carry
SnapshotDatas ==
    {[ok |-> TRUE, parses |-> FALSE, desc |-> UninitDesc]}
        \cup {[ok |-> TRUE, parses |-> TRUE, desc |-> d] : d \in Spans}

\* a variant of CanApplySnapshot that lets every snapshot through
CanApplySnapshot_Always(rep, snap) == TRUE

\* Store.CanApplySnapshot: an initialized replica lets the snapshot through;
\* without one the snapshot must unmarshal and s.replicasByKey must not have
\* an item with the end key of the snapshot's descriptor
CanApplySnapshot(rep, snap) ==
    IF rep.ok /\ rep.init THEN TRUE
    ELSE IF ~snap.parses THEN FALSE
    ELSE ~\E d \in replicasByKey : d.end = snap.desc.end

\* handleMessage of a MsgSnap of the range from replica 2 to the replica ID
\* t of this store: dropped at once when the storage cannot apply the
\* snapshot, handled as any other message otherwise
HandleSnap ==
    /\ AtSelect
    /\ \E t \in SelfReplicaIDs, snap \in SnapshotDatas :
        LET req == [NoRaftRequest EXCEPT !.type = "MsgSnap", !.from = 2, !.to = t,
                                         !.snapshot = snap]
        IN IF CanApplySnapshot(replica, snap)
           THEN HandleRequest(req)
           ELSE LoopBecomes(LoopState, req, <<>>, <<>>)
    /\ UNCHANGED <<writingGroups, writeTask, pendingEvents, events, callbackChan,
                   raftLog, panicked, loopPc, handedIndex>>
    /\ UNCHANGED <<storageVars, ticks, replicasByKey, tombstone, elections, lookup, verified, storeVars>>

\* the store creates the group of its replica: createGroup(groupID, 0)
CreateGroup ==
    /\ AtSelect
    /\ ~group.ok /\ replica.ok
    /\ created < MaxIncarnations
    /\ LoopBecomes(createGroup(LoopState, 0), NoRaftRequest, <<>>, <<>>)
    /\ UNCHANGED <<writingGroups, writeTask, pendingEvents, events, callbackChan,
                   raftLog, panicked, loopPc, handedIndex>>
    /\ UNCHANGED <<storageVars, ticks, replicasByKey, tombstone, elections, lookup, verified, storeVars>>

\* Store.removeReplicaImpl on the processRaft goroutine, between two event
\* slices: the group is removed from the loop, the replica from the store
RemoveReplica ==
    /\ AtSelect
    /\ events = <<>> /\ ~callbackChan.ok
    /\ \A id \in CommandIDs : proposals[id].at # "chan"
    /\ replica.ok
    /\ LoopBecomes([removeGroup(LoopState) EXCEPT !.replica = NoReplica],
                   NoRaftRequest, <<>>, <<>>)
    /\ UNCHANGED <<writingGroups, writeTask, pendingEvents, events, callbackChan,
                   raftLog, panicked, loopPc, handedIndex>>
    /\ UNCHANGED <<storageVars, ticks, replicasByKey, tombstone, elections, lookup, verified, storeVars>>


(***************************************************************************)

(* ---- the ready pipeline --------------------------------------------------*)

\* the library has a Ready for the group: something changed since the last
\* Ready it handed out, and that one has been advanced
HasReady(r) ==
    /\ r.ok /\ ~r.inFlight
    /\ \/ r.lead # r.prevLead
       \/ r.committed # r.hsCommit
       \/ r.committed > r.stable
       \/ r.committed > r.applied
       \/ r.snapshot.ok
       \/ r.beat # "none"

\* raft.Ready of the library's group r: the changed soft and hard state, the
\* snapshot to apply, the entries not yet persisted, the committed entries
\* not yet handed out, a message that tells a peer how far the log goes, and
\* the group's own heartbeat or heartbeat response when one is due
Ready(r) ==
    [ok |-> TRUE,
     softState |-> IF r.lead # r.prevLead THEN [ok |-> TRUE, lead |-> r.lead]
                   ELSE NoSoftState,
     hardState |-> IF r.committed # r.hsCommit THEN [ok |-> TRUE, commit |-> r.committed]
                   ELSE NoHS,
     snapshot |-> r.snapshot,
     entries |-> IF r.committed > r.stable
                 THEN [lo |-> r.stable + 1, hi |-> r.committed] ELSE NoRange,
     committedEntries |-> IF r.committed > r.applied /\ ~r.snapshot.ok
                          THEN [lo |-> r.applied + 1, hi |-> r.committed] ELSE NoRange,
     messages |-> (IF r.committed > r.stable
                   THEN <<[type |-> IF r.lead \in Peers THEN "MsgAppResp" ELSE "MsgApp",
                           to |-> IF r.lead \in Peers THEN r.lead ELSE 2,
                           from |-> r.id, index |-> r.committed]>>
                   ELSE <<>>)
                  \o (IF r.beat # "none"
                      THEN <<[type |-> r.beat,
                              to |-> IF r.lead \in Peers THEN r.lead ELSE 2,
                              from |-> r.id, index |-> 0]>>
                      ELSE <<>>)]

\* multiNode.Advance for the Ready rd
Advance(r, rd) ==
    IF ~r.ok THEN r
    ELSE [r EXCEPT
            !.inFlight = FALSE,
            !.applied = IF rd.snapshot.ok THEN rd.snapshot.index
                        ELSE IF rd.committedEntries.hi >= rd.committedEntries.lo
                             THEN rd.committedEntries.hi ELSE @,
            !.stable = IF rd.entries.hi >= rd.entries.lo THEN rd.entries.hi ELSE @,
            !.hsCommit = IF rd.hardState.ok THEN rd.hardState.commit ELSE @,
            !.prevLead = IF rd.softState.ok THEN rd.softState.lead ELSE @,
            !.snapshot = NoSnap,
            !.beat = "none"]

\* the loop takes a ready batch, signals the write task and hands it the
\* write request (handleWriteReady); the batch becomes writingGroups
PullReady ==
    /\ AtSelect
    /\ writingGroups = NoReady
    /\ HasReady(multiNode)
    /\ writingGroups' = Ready(multiNode)
    /\ multiNode' = [multiNode EXCEPT !.inFlight = TRUE]
    /\ group' = IF group.ok THEN [group EXCEPT !.writing = TRUE] ELSE group
    /\ writeTask' = [in |-> IF group.ok
                            THEN [ok |-> TRUE,
                                  state |-> Ready(multiNode).hardState,
                                  snapshot |-> Ready(multiNode).snapshot,
                                  entries |-> Ready(multiNode).entries]
                            ELSE [NoWriteRequest EXCEPT !.ok = TRUE],
                     out |-> FALSE]
    /\ loopPc' = "write"
    /\ sent' = <<>> /\ stepped' = <<>> /\ handled' = NoRaftRequest
    /\ UNCHANGED <<nodes, created, pendingEvents, events, callbackChan, replica,
                   raftLog, panicked, handedIndex>>
    /\ UNCHANGED <<storageVars, ticks, replicasByKey, tombstone, proposals, proposed, elections, lookup, verified, storeVars>>

\* what the storage holds after the write task persisted a group's request:
\* the hard state, then the snapshot, then the entries
Persist(rep, req) ==
    LET r1 == IF req.state.ok THEN [rep EXCEPT !.commit = req.state.commit] ELSE rep
        r2 == IF req.snapshot.ok
              THEN [r1 EXCEPT !.init = TRUE,
                              !.appliedIndex = req.snapshot.index,
                              !.lastIndex = req.snapshot.index,
                              !.members = req.snapshot.members]
              ELSE r1
    IN IF req.entries.hi >= req.entries.lo THEN [r2 EXCEPT !.lastIndex = req.entries.hi]
       ELSE r2

\* the write task persists the request and answers on writeTask.out
WriteTaskRun ==
    /\ ~panicked
    /\ writeTask.in.ok
    /\ replica' = IF replica.ok THEN Persist(replica, writeTask.in) ELSE replica
    /\ writeTask' = [in |-> NoWriteRequest, out |-> TRUE]
    /\ UNCHANGED <<group, nodes, created, writingGroups, pendingEvents, events,
                   callbackChan, multiNode, raftLog, sent, stepped, handled,
                   panicked, loopPc, handedIndex>>
    /\ UNCHANGED <<storageVars, ticks, replicasByKey, tombstone, proposals, proposed, elections, lookup, verified, storeVars>>

\* a variant of the loop that goes on without the write task's answer
WriteAcked_NoWait == TRUE

\* the loop's receive on writeTask.out
WriteAcked == writeTask.out

\* processCommittedEntry for the entries lo..hi of group object inc: one
\* event per entry, with the index and, for a membership change, the
\* replica and the group object its callback captures
RECURSIVE CommittedEvents(_, _, _)
CommittedEvents(lo, hi, inc) ==
    IF lo > hi THEN <<>>
    ELSE <<[type |-> IF raftLog[lo - raftInitialLogIndex].type = "EntryNormal"
                     THEN "EventCommandCommitted"
                     ELSE "EventMembershipChangeCommitted",
            index |-> lo,
            change |-> raftLog[lo - raftInitialLogIndex].type,
            replica |-> raftLog[lo - raftInitialLogIndex].replica,
            inc |-> inc,
            cmd |-> raftLog[lo - raftInitialLogIndex].cmd]>>
         \o CommittedEvents(lo + 1, hi, inc)

\* the command IDs of this node's proposals among the entries lo..hi
CommittedCommands(lo, hi) ==
    {raftLog[i - raftInitialLogIndex].cmd : i \in lo..hi} \cap CommandIDs

\* EventLeaderElection for the leader l and the committed term t
LeaderEvent(l, t) ==
    [type |-> "EventLeaderElection", index |-> t, change |-> "none", replica |-> l,
     inc |-> 0, cmd |-> 0]

\* a variant of maybeSendLeaderEvent that acts on every change of leader
LeaderEventDue_OnLeader(g, term, rd) == rd.softState.ok /\ g.leader # 0

\* maybeSendLeaderEvent acts: the term of the last committed entry is not
\* the group's committed term, and the leader is known
LeaderEventDue(g, term, rd) == term # g.committedTerm /\ g.leader # 0

\* the membership changes among a list of events
ConfChanges(evs) ==
    Cardinality({j \in 1..Len(evs) : evs[j].type = "EventMembershipChangeCommitted"})

\* a variant of handleWriteResponse that sends every message of the batch
DropsIndividual_Never(msg) == FALSE

\* handleWriteResponse does not send the library's per-group heartbeats and
\* heartbeat responses
DropsIndividual(msg) == msg.type \in {"MsgHeartbeat", "MsgHeartbeatResp"}

\* handleWriteResponse and Advance, once the write task has answered: the
\* committed entries become events, the nodes of an applied snapshot are
\* added, the leader is saved, the messages other than heartbeats are sent,
\* the library advances; the batch of a group that is not marked writing is
\* taken out of what Advance gets
HandleWriteResponse ==
    /\ ~panicked
    /\ loopPc = "write"
    /\ WriteAcked
    /\ LET rd == writingGroups
           live == group.ok /\ group.writing
           lo == rd.committedEntries.lo
           hi == rd.committedEntries.hi
           evs == IF live THEN CommittedEvents(lo, hi, group.inc) ELSE <<>>
           done == IF live THEN CommittedCommands(lo, hi) \cap group.pending ELSE {}
           snapNodes == IF live /\ rd.snapshot.ok
                        THEN {NodeOfReplica(r) : r \in rd.snapshot.members} ELSE {}
           msgs == IF live
                   THEN SelectSeq(rd.messages, LAMBDA msg : ~DropsIndividual(msg))
                   ELSE <<>>
           nodes1 == addNodes(nodes, snapNodes, TRUE)
           msgNodes == {NodeOfReplica(msgs[j].to) : j \in 1..Len(msgs)}
           newNodes == {n \in msgNodes : ~nodes1[n].ok}
           g1 == [group EXCEPT
                    !.writing = FALSE,
                    !.waitForCallback = @ + ConfChanges(evs),
                    !.pending = @ \ done,
                    !.leader = IF rd.softState.ok THEN rd.softState.lead ELSE @,
                    !.nodeIDs = @ \cup snapNodes]
           term == IF hi >= lo THEN raftLog[hi - raftInitialLogIndex].term
                   ELSE group.committedTerm
           elects == live /\ LeaderEventDue(g1, term, rd)
           st1 == [LoopState EXCEPT
                     !.group = IF elects THEN [g1 EXCEPT !.committedTerm = term] ELSE g1,
                     !.proposals = FinishAll(@, done, "nil")]
           st == IF elects THEN proposeAll(st1, g1.pending) ELSE st1
       IN /\ pendingEvents' = pendingEvents \o evs
                                \o (IF elects
                                    THEN <<LeaderEvent(g1.leader, term)>>
                                    ELSE <<>>)
          /\ nodes' = addNodes(nodes1, newNodes, TRUE)
          /\ group' = IF live THEN [st.group EXCEPT !.nodeIDs = @ \cup newNodes]
                      ELSE group
          /\ proposals' = st.proposals
          /\ proposed' = st.proposed
          /\ sent' = [j \in 1..Len(msgs) |-> sendMessage(groupID, msgs[j])]
          /\ multiNode' = IF group.ok /\ ~group.writing THEN multiNode
                          ELSE Advance(st.multiNode, rd)
    /\ writingGroups' = NoReady
    /\ writeTask' = [writeTask EXCEPT !.out = FALSE]
    /\ loopPc' = "select"
    /\ stepped' = <<>> /\ handled' = [NoRaftRequest EXCEPT !.type = "WriteResponse"]
    /\ UNCHANGED <<created, events, callbackChan, replica, raftLog, panicked,
                   handedIndex>>
    /\ UNCHANGED <<storageVars, ticks, replicasByKey, tombstone, elections, lookup, verified, storeVars>>

\* Store.processRaft is inside SubmitCommand, blocked in the send on
\* proposalChan
Submitting == \E id \in CommandIDs : proposals[id].at = "chan"

\* the events of a slice Store.processRaft acts on: it passes over every
\* event that is neither a committed command nor a committed membership change
Commands(evs) == SelectSeq(evs, LAMBDA e : e.type # "EventLeaderElection")

\* the loop hands s.pendingEvents to Store.processRaft on s.Events, which
\* goes through the slice
SendEvents ==
    /\ AtSelect
    /\ Len(pendingEvents) > 0
    /\ events = <<>> /\ ~callbackChan.ok /\ ~Submitting
    /\ events' = Commands(pendingEvents)
    /\ pendingEvents' = <<>>
    /\ sent' = <<>> /\ stepped' = <<>> /\ handled' = NoRaftRequest
    /\ UNCHANGED <<group, nodes, created, writingGroups, writeTask, callbackChan,
                   replica, multiNode, raftLog, panicked, loopPc, handedIndex>>
    /\ UNCHANGED <<storageVars, ticks, replicasByKey, tombstone, proposals, proposed, elections, lookup, verified, storeVars>>

\* Store.processRaft takes the next event of its slice: the command is
\* handed to the replica, which applies it when it is beyond its applied
\* index and skips it otherwise (with or without an error); without a
\* replica the error is that the range is missing.  A membership change
\* then calls back with the error, which sends the closure to the loop
ProcessEvent ==
    /\ ~panicked
    /\ Len(events) > 0 /\ ~callbackChan.ok
    /\ LET e == Head(events)
           applies == replica.ok /\ e.index > replica.appliedIndex
           errs == IF applies THEN {"nil"}
                   ELSE IF replica.ok THEN {"nil", "error"} ELSE {"error"}
       IN /\ replica' = IF applies
                        THEN [replica EXCEPT
                                !.appliedIndex = e.index,
                                !.members = IF e.change = "ConfChangeAddNode"
                                            THEN @ \cup {e.replica}
                                            ELSE IF e.change = "ConfChangeRemoveNode"
                                            THEN @ \ {e.replica} ELSE @]
                        ELSE replica
          /\ handedIndex' = IF replica.ok THEN e.index ELSE handedIndex
          /\ \E err \in errs :
                callbackChan' = IF e.type = "EventMembershipChangeCommitted"
                                THEN [ok |-> TRUE, inc |-> e.inc, type |-> e.change,
                                      replica |-> e.replica, err |-> err]
                                ELSE NoCallback
    /\ events' = Tail(events)
    /\ UNCHANGED <<group, nodes, created, writingGroups, writeTask, pendingEvents,
                   multiNode, raftLog, sent, stepped, handled, panicked, loopPc>>
    /\ UNCHANGED <<storageVars, ticks, replicasByKey, tombstone, proposals, proposed, elections, lookup, verified, storeVars>>

\* a variant of the closure that applies the committed change whatever the
\* consumer reported
ApplyConfChange_Committed(cb) == cb.replica

\* the change the closure hands to multiNode.ApplyConfChange, by the
\* replica it names: the committed change, or the empty change (replica 0)
\* when the consumer reported an error
ApplyConfChange(cb) == IF cb.err = "nil" THEN cb.replica ELSE 0

\* a variant of removeNode that leaves the proposals alone
removeNode_KeepPending(st, n) ==
    IF ~st.nodes[n].ok THEN st
    ELSE [st EXCEPT !.group.nodeIDs = @ \ {n},
                    !.nodes[n].groupIDs = @ \ {groupID}]

\* state.removeNode(n, g) for the group object g of the loop state st: an
\* unknown node is an error; otherwise the node leaves g.nodeIDs, the group
\* ID is unregistered from the node, and when the node is this one every
\* pending proposal of g is finished with ErrGroupDeleted
removeNode(st, n) ==
    IF ~st.nodes[n].ok THEN st
    ELSE [st EXCEPT
            !.group.nodeIDs = @ \ {n},
            !.nodes[n].groupIDs = @ \ {groupID},
            !.proposals = IF n = nodeID
                          THEN FinishAll(@, st.group.pending, "ErrGroupDeleted")
                          ELSE @,
            !.group.pending = IF n = nodeID THEN {} ELSE @]

\* the loop runs the closure of a membership change: addNode or removeNode
\* with the group object the closure captured, ApplyConfChange (handled.to
\* is the replica of the change it gets), and that object's waitForCallback
\* goes down
RunCallback ==
    /\ AtSelect
    /\ callbackChan.ok
    /\ LET cb == callbackChan
           live == group.ok /\ group.inc = cb.inc
           adds == cb.err = "nil" /\ cb.type = "ConfChangeAddNode"
           removes == cb.err = "nil" /\ cb.type = "ConfChangeRemoveNode"
           st0 == IF removes THEN removeNode(LoopState, NodeOfReplica(cb.replica))
                  ELSE LoopState
           g1 == [st0.group EXCEPT
                    !.waitForCallback = @ - 1,
                    !.nodeIDs = IF adds THEN @ \cup {NodeOfReplica(cb.replica)}
                                ELSE @]
           st1 == [st0 EXCEPT !.group = g1]
           st == IF g1.waitForCallback <= 0 THEN proposeAll(st1, g1.pending) ELSE st1
       IN /\ nodes' = IF adds THEN addNodes(nodes, {NodeOfReplica(cb.replica)}, TRUE)
                      ELSE st0.nodes
          /\ group' = IF live THEN st.group ELSE group
          /\ multiNode' = IF live THEN st.multiNode ELSE multiNode
          /\ proposals' = IF live THEN st.proposals ELSE proposals
          /\ proposed' = IF live THEN st.proposed ELSE {}
    /\ callbackChan' = NoCallback
    /\ sent' = <<>> /\ stepped' = <<>>
    /\ handled' = [NoRaftRequest EXCEPT !.type = "Callback",
                                        !.to = ApplyConfChange(callbackChan)]
    /\ UNCHANGED <<created, writingGroups, writeTask, pendingEvents, events, replica,
                   raftLog, panicked, loopPc, handedIndex>>
    /\ UNCHANGED <<storageVars, ticks, replicasByKey, tombstone, elections, lookup, verified, storeVars>>

(* ---- the consensus library at work ---------------------------------------*)

\* the group learns of a leader: this replica or the one on node 2
RaftLead ==
    /\ ~panicked
    /\ multiNode.ok
    /\ \E l \in {multiNode.id, 2} :
        /\ l # multiNode.lead
        /\ multiNode' = [multiNode EXCEPT !.lead = l]
    /\ UNCHANGED <<group, nodes, created, writingGroups, writeTask, pendingEvents,
                   events, callbackChan, replica, raftLog, sent, stepped, handled,
                   panicked, loopPc, handedIndex>>
    /\ UNCHANGED <<storageVars, ticks, replicasByKey, tombstone, proposals, proposed, elections, lookup, verified, storeVars>>

\* the group receives and commits the next entry of the range's log
RaftCommit ==
    /\ ~panicked
    /\ multiNode.ok /\ replica.ok /\ replica.init
    /\ multiNode.lead # 0 /\ ~multiNode.snapshot.ok
    /\ multiNode.committed < MaxRaftIndex
    /\ IF multiNode.committed - raftInitialLogIndex < Len(raftLog)
       THEN /\ raftLog' = raftLog
            /\ multiNode' = [multiNode EXCEPT !.committed = @ + 1]
       ELSE \E k \in EntryKinds \cup {ProposalEntry(id) : id \in multiNode.proposals} :
               /\ raftLog' = Append(raftLog, RaftEntry(k, multiNode.term))
               /\ multiNode' = [multiNode EXCEPT !.committed = @ + 1,
                                                 !.proposals = @ \ {k.cmd}]
    /\ UNCHANGED <<group, nodes, created, writingGroups, writeTask, pendingEvents,
                   events, callbackChan, replica, sent, stepped, handled,
                   panicked, loopPc, handedIndex>>
    /\ UNCHANGED <<storageVars, ticks, replicasByKey, tombstone, proposals, proposed, elections, lookup, verified, storeVars>>

\* the members of the range after the entries committed so far
MembersNow(id) ==
    {id, 2} \cup {raftLog[j].replica : j \in {i \in 1..Len(raftLog) :
                                                raftLog[i].type = "ConfChangeAddNode"}}

\* the group of a placeholder replica receives a snapshot of the range
RaftSnapshot ==
    /\ ~panicked
    /\ multiNode.ok /\ replica.ok /\ ~replica.init
    /\ ~multiNode.snapshot.ok /\ ~multiNode.inFlight
    /\ multiNode' = [multiNode EXCEPT
                        !.committed = raftInitialLogIndex + Len(raftLog),
                        !.stable = raftInitialLogIndex + Len(raftLog),
                        !.snapshot = [ok |-> TRUE,
                                      index |-> raftInitialLogIndex + Len(raftLog),
                                      members |-> MembersNow(multiNode.id)]]
    /\ UNCHANGED <<group, nodes, created, writingGroups, writeTask, pendingEvents,
                   events, callbackChan, replica, raftLog, sent, stepped, handled,
                   panicked, loopPc, handedIndex>>
    /\ UNCHANGED <<storageVars, ticks, replicasByKey, tombstone, proposals, proposed, elections, lookup, verified, storeVars>>

\* the group's heartbeat timer fires in the library: a leader queues a
\* MsgHeartbeat for a follower, a follower that was sent one a MsgHeartbeatResp
RaftBeat ==
    /\ ~panicked
    /\ multiNode.ok /\ ~multiNode.inFlight
    /\ multiNode.lead # 0 /\ multiNode.beat = "none"
    /\ multiNode' = [multiNode EXCEPT
                        !.beat = IF multiNode.lead = multiNode.id THEN "MsgHeartbeat"
                                 ELSE "MsgHeartbeatResp"]
    /\ UNCHANGED <<group, nodes, created, writingGroups, writeTask, pendingEvents,
                   events, callbackChan, replica, raftLog, sent, stepped, handled,
                   panicked, loopPc, handedIndex>>
    /\ UNCHANGED <<storageVars, ticks, replicasByKey, tombstone, proposals, proposed, elections, lookup, verified, storeVars>>

\* the range holds an election: the term goes up, the group learns of the
\* leader, and what was proposed to the old leader may be lost
\* the entries the range's log takes beyond MaxCommits while the loop and
\* its consumer are watched
MaxMoreCommits == 1

\* the group commits one entry more: as RaftCommit, for a longer log
RaftCommitMore ==
    /\ ~panicked
    /\ multiNode.ok /\ replica.ok /\ replica.init
    /\ multiNode.lead # 0 /\ ~multiNode.snapshot.ok
    /\ multiNode.committed >= MaxRaftIndex
    /\ multiNode.committed < MaxRaftIndex + MaxMoreCommits
    /\ IF multiNode.committed - raftInitialLogIndex < Len(raftLog)
       THEN /\ raftLog' = raftLog
            /\ multiNode' = [multiNode EXCEPT !.committed = @ + 1]
       ELSE \E k \in EntryKinds \cup {ProposalEntry(id) : id \in multiNode.proposals} :
               /\ raftLog' = Append(raftLog, RaftEntry(k, multiNode.term))
               /\ multiNode' = [multiNode EXCEPT !.committed = @ + 1,
                                                 !.proposals = @ \ {k.cmd}]
    /\ UNCHANGED <<group, nodes, created, writingGroups, writeTask, pendingEvents,
                   events, callbackChan, replica, sent, stepped, handled,
                   panicked, loopPc, handedIndex>>
    /\ UNCHANGED <<storageVars, ticks, replicasByKey, tombstone, proposals, proposed, elections, lookup, verified, storeVars>>

\* the group commits a second copy of a command of this node: the command
\* is in the log, and the loop has handed it to the library again
RaftCommitAgain ==
    /\ ~panicked
    /\ multiNode.ok /\ replica.ok /\ replica.init
    /\ multiNode.lead # 0 /\ ~multiNode.snapshot.ok
    /\ multiNode.committed - raftInitialLogIndex = Len(raftLog)
    /\ Len(raftLog) <= MaxCommits + MaxMoreCommits
    /\ \E id \in multiNode.proposals :
          /\ \E j \in 1..Len(raftLog) : raftLog[j].cmd = id
          /\ raftLog' = Append(raftLog, RaftEntry(ProposalEntry(id), multiNode.term))
          /\ multiNode' = [multiNode EXCEPT !.committed = @ + 1,
                                            !.proposals = @ \ {id}]
    /\ UNCHANGED <<group, nodes, created, writingGroups, writeTask, pendingEvents,
                   events, callbackChan, replica, sent, stepped, handled,
                   panicked, loopPc, handedIndex>>
    /\ UNCHANGED <<storageVars, ticks, replicasByKey, tombstone, proposals, proposed, elections, lookup, verified, storeVars>>

\* the group commits the removal of this store's replica from the range
RaftCommitRemoval ==
    /\ ~panicked
    /\ multiNode.ok /\ replica.ok /\ replica.init
    /\ multiNode.lead # 0 /\ ~multiNode.snapshot.ok
    /\ multiNode.committed < MaxRaftIndex
    /\ multiNode.committed - raftInitialLogIndex = Len(raftLog)
    /\ raftLog' = Append(raftLog,
                         RaftEntry([type |-> "ConfChangeRemoveNode",
                                    replica |-> multiNode.id, cmd |-> 0],
                                   multiNode.term))
    /\ multiNode' = [multiNode EXCEPT !.committed = @ + 1]
    /\ UNCHANGED <<group, nodes, created, writingGroups, writeTask, pendingEvents,
                   events, callbackChan, replica, sent, stepped, handled,
                   panicked, loopPc, handedIndex>>
    /\ UNCHANGED <<storageVars, ticks, replicasByKey, tombstone, proposals, proposed, elections, lookup, verified, storeVars>>

RaftElect ==
    /\ ~panicked
    /\ multiNode.ok
    /\ elections < MaxElections
    /\ elections' = elections + 1
    /\ \E l \in {multiNode.id, 2}, kept \in {multiNode.proposals, {}} :
        multiNode' = [multiNode EXCEPT !.lead = l, !.term = @ + 1, !.proposals = kept]
    /\ UNCHANGED <<group, nodes, created, writingGroups, writeTask, pendingEvents,
                   events, callbackChan, replica, raftLog, sent, stepped, handled,
                   panicked, loopPc, handedIndex>>
    /\ UNCHANGED <<storageVars, ticks, replicasByKey, tombstone, proposals, proposed, lookup, verified, storeVars>>

\* Store.proposeRaftCommandImpl on the processRaft goroutine, between two
\* event slices: the store holds the replica, CreateGroup has answered (the
\* loop is at its select and has the group), and SubmitCommand or
\* ChangeGroupMembership makes the proposal's channel and sends the proposal
\* on proposalChan, where it blocks until the loop receives it
Submit ==
    /\ AtSelect
    /\ events = <<>> /\ ~callbackChan.ok /\ ~Submitting
    /\ replica.ok /\ group.ok
    /\ \E id \in CommandIDs :
        /\ proposals[id].at = "none"
        /\ proposals' = [proposals EXCEPT ![id].at = "chan"]
    /\ UNCHANGED <<group, nodes, created, writingGroups, writeTask, pendingEvents,
                   events, callbackChan, replica, multiNode, raftLog, sent, stepped,
                   handled, panicked, loopPc, handedIndex>>
    /\ UNCHANGED <<storageVars, ticks, replicasByKey, tombstone, proposed, elections, lookup, verified, storeVars>>

\* the loop receives a proposal from proposalChan: state.propose
Propose ==
    /\ AtSelect
    /\ \E id \in CommandIDs :
        /\ proposals[id].at = "chan"
        /\ LoopBecomes(propose([LoopState EXCEPT !.proposals[id].at = "taken"], id),
                       [NoRaftRequest EXCEPT !.type = "Propose", !.to = id], <<>>, <<>>)
    /\ UNCHANGED <<writingGroups, writeTask, pendingEvents, events, callbackChan,
                   raftLog, panicked, loopPc, handedIndex>>
    /\ UNCHANGED <<storageVars, ticks, replicasByKey, tombstone, elections, lookup, verified, storeVars>>

\* the stopper tells the loop to stop, at its select or while it waits for
\* the write task: the loop returns and state.stop sends the shutting-down
\* error to every proposal in the pending set of a group
Stop ==
    /\ ~panicked
    /\ loopPc \in {"select", "write"}
    /\ loopPc' = "stopped"
    /\ proposals' = FinishAll(proposals, group.pending, "shutting down")
    /\ proposed' = {}
    /\ sent' = <<>> /\ stepped' = <<>> /\ handled' = [NoRaftRequest EXCEPT !.type = "Stop"]
    /\ UNCHANGED <<group, nodes, created, writingGroups, writeTask, pendingEvents,
                   events, callbackChan, replica, multiNode, raftLog, panicked,
                   handedIndex>>
    /\ UNCHANGED <<storageVars, ticks, replicasByKey, tombstone, elections, lookup, verified, storeVars>>

\* the orders in which a range over the map s.nodes can visit the nodes S
Orders(S) ==
    {o \in [1..Cardinality(S) -> S] : \A i, j \in 1..Cardinality(S) : o[i] = o[j] => i = j}

\* the tick count at which the loop sends the coalesced heartbeats
HeartbeatDue(t) == t >= HeartbeatIntervalTicks

\* the loop's tick: multiNode.Tick (the library's timers run in RaftBeat and
\* RaftLead), the count goes up, and when the interval is reached it is reset
\* and coalescedHeartbeat sends one MsgHeartbeat to every node of s.nodes
\* but this one
Tick ==
    /\ AtSelect
    /\ LET due == HeartbeatDue(ticks + 1)
           remote == {n \in NodeIDs : nodes[n].ok /\ n # nodeID}
       IN /\ ticks' = IF due THEN 0 ELSE ticks + 1
          /\ \E o \in Orders(remote) :
                sent' = IF due
                        THEN [j \in 1..Cardinality(remote) |->
                                sendMessage(noGroup, [type |-> "MsgHeartbeat", to |-> o[j],
                                                      from |-> nodeID, index |-> 0])]
                        ELSE <<>>
    /\ stepped' = <<>>
    /\ handled' = [NoRaftRequest EXCEPT !.type = "Tick"]
    /\ UNCHANGED <<group, nodes, created, writingGroups, writeTask, pendingEvents,
                   events, callbackChan, replica, multiNode, raftLog, panicked, loopPc,
                   handedIndex>>
    /\ UNCHANGED <<storageVars, replicasByKey, tombstone, proposals, proposed, elections, lookup, verified, storeVars>>

\* the storage variables while the loop is watched: the replica at rest
StorageIdle ==
    /\ engine = [EmptyEngine EXCEPT !.lease = "L0", !.stats = "S0",
                                    !.kv = [k \in UserKeys |-> "a"]]
    /\ desc = Desc(1, 3)
    /\ lease = "L0"
    /\ stats = "S0"
    /\ truncatedState = NoTS
    /\ lastIndex = raftInitialLogIndex
    /\ appliedIndex = raftInitialLogIndex
    /\ wpc = "idle"
    /\ wreq = NoRequest
    /\ lastOp = NoOp
    /\ entriesCall = NoEntriesCall

MultiRaftInit == StorageIdle /\ MRIdle

MultiRaftNext ==
    \/ CreateGroup
    \/ RemoveReplica
    \/ HandleMessage
    \/ HandleHeartbeat
    \/ HandleHeartbeatResp
    \/ PullReady
    \/ WriteTaskRun
    \/ HandleWriteResponse
    \/ SendEvents
    \/ ProcessEvent
    \/ RunCallback
    \/ RaftLead
    \/ RaftCommit
    \/ RaftSnapshot

SpecMultiRaft == MultiRaftInit /\ [][MultiRaftNext]_vars

\* the sets of spans s.replicasByKey can hold: one item for an end key
KeyIndexes == {S \in SUBSET Spans : \A a, b \in S : a.end = b.end => a = b}

\* a variant of RKey.Next that returns the key itself
Next_Same(k) == k

\* RKey.Next: the key that follows k at once in key order
Next(k) == k + 1

\* RSpan.ContainsKey: the key is at or after the span's start and before
\* its end
ContainsKey(rs, k) == k >= rs.start /\ k < rs.end

\* RSpan.ContainsKeyRange, as TestRSpanContains has it: without an end, and
\* with the end equal to the start, the span contains the start key; an
\* end before the start is contained in no span; otherwise the span starts
\* at or before the start and ends at or after the end
ContainsKeyRange(rs, start, end) ==
    IF end = NilKey \/ end = start THEN ContainsKey(rs, start)
    ELSE IF end < start THEN FALSE
    ELSE start >= rs.start /\ rs.end >= end

\* btree.AscendGreaterOrEqual with an iterator that stops at the first
\* item: the item of the index with the least end key at or after the pivot
AscendGreaterOrEqual(index, pivot) ==
    LET from == {r \in index : ~(r.end < pivot)}
    IN IF from = {} THEN NoSpan
       ELSE CHOOSE r \in from : \A q \in from : ~(q.end < r.end)

\* Store.LookupReplica
LookupReplica(start, end) ==
    LET rng == AscendGreaterOrEqual(replicasByKey, Next(start))
    IN IF rng = NoSpan \/ ~ContainsKeyRange(rng, start, end) THEN NoSpan ELSE rng

\* a caller looks up the replica for a key or a key range
CallLookupReplica ==
    /\ \E start \in 0..MaxKey, end \in {NilKey} \cup 0..MaxKey :
        lookup' = [called |-> TRUE, start |-> start, end |-> end,
                   rng |-> LookupReplica(start, end)]
    /\ UNCHANGED <<group, nodes, created, writingGroups, writeTask, pendingEvents,
                   events, callbackChan, replica, multiNode, raftLog, sent, stepped,
                   handled, panicked, loopPc, handedIndex>>
    /\ UNCHANGED <<storageVars, ticks, replicasByKey, tombstone, proposals, proposed,
                   elections, verified, storeVars>>

\* The keys verifyKeys is given, numbered in byte order: the empty key, the
\* range-local keys of the addresses 1..MaxKey, LocalMax, the addresses
\* 1..MaxKey themselves, KeyMax, and a key after KeyMax
KeyMin == 0
RangeLocalKey(a) == KeyMin + a
LocalMax == RangeLocalKey(MaxKey) + 1
AddressKey(a) == LocalMax + a
KeyMax == AddressKey(MaxKey) + 1
RawKeys == KeyMin..(KeyMax + 1)

\* keys.Addr: the address a range-local key was made for, any other key
\* itself
Addr(k) == IF k > KeyMin /\ k < LocalMax THEN AddressKey(k - KeyMin) ELSE k

\* len(key) == 0: the nil key and the empty key
Empty(k) == k = NilKey \/ k = KeyMin

\* verifyKeys
verifyKeys(start, end, checkEndKey) ==
    IF start >= KeyMax THEN "start key must be less than KeyMax"
    ELSE IF ~checkEndKey
    THEN (IF ~Empty(end) THEN "end key should not be specified" ELSE "nil")
    ELSE IF end = NilKey THEN "end key must be specified"
    ELSE IF KeyMax < end THEN "end key must be less than or equal to KeyMax"
    ELSE IF ~(Addr(start) < Addr(end)) THEN "end key must be greater than start"
    ELSE IF Addr(start) # start
    THEN (IF Addr(end) = end THEN "start key is range-local, but end key is not"
          ELSE "nil")
    ELSE IF start < LocalMax THEN "start key must be greater than LocalMax"
    ELSE "nil"

\* a request's keys are verified
CallVerifyKeys ==
    /\ \E start \in RawKeys, end \in {NilKey} \cup RawKeys, checkEndKey \in BOOLEAN :
        verified' = [called |-> TRUE, start |-> start, end |-> end,
                     checkEndKey |-> checkEndKey,
                     err |-> verifyKeys(start, end, checkEndKey)]
    /\ UNCHANGED <<group, nodes, created, writingGroups, writeTask, pendingEvents,
                   events, callbackChan, replica, multiNode, raftLog, sent, stepped,
                   handled, panicked, loopPc, handedIndex>>
    /\ UNCHANGED <<storageVars, ticks, replicasByKey, tombstone, proposals, proposed,
                   elections, lookup, storeVars>>

SpecVerify == MultiRaftInit /\ [][CallVerifyKeys]_vars

\* a store with its ranges in the index
LookupInit ==
    /\ StorageIdle
    /\ LoopIdle
    /\ replicasByKey \in KeyIndexes
    /\ replica = FirstReplica /\ tombstone = 0

SpecLookup == LookupInit /\ [][CallLookupReplica]_vars

\* a store that holds the range or does not, with or without a tombstone of
\* an earlier replica of the range, and with other ranges
IncomingInit ==
    /\ StorageIdle
    /\ LoopIdle
    /\ replicasByKey \in KeyIndexes
    /\ \/ replica = FirstReplica /\ tombstone = 0
       \/ replica = NoReplica /\ tombstone \in {0} \cup SelfReplicaIDs

\* the loop receiving the messages of the range, snapshots among them
IncomingNext ==
    \/ HandleMessage
    \/ HandleSnap
    \/ RemoveReplica

SpecIncoming == IncomingInit /\ [][IncomingNext]_vars

\* the loop with its ticker running, the groups' own heartbeats included
TicksNext ==
    \/ CreateGroup
    \/ HandleHeartbeat
    \/ Tick
    \/ RaftLead
    \/ RaftCommit
    \/ RaftBeat
    \/ PullReady
    \/ WriteTaskRun
    \/ HandleWriteResponse

SpecTicks == MultiRaftInit /\ [][TicksNext]_vars

ProposalsNext ==
    \/ CreateGroup
    \/ RemoveReplica
    \/ Submit
    \/ Propose
    \/ Stop
    \/ PullReady
    \/ WriteTaskRun
    \/ HandleWriteResponse
    \/ SendEvents
    \/ ProcessEvent
    \/ RunCallback
    \/ RaftLead
    \/ RaftElect
    \/ RaftCommit

SpecProposals == MultiRaftInit /\ [][ProposalsNext]_vars

\* the loop with proposals coming in, the removal of this store's replica
\* among the membership changes that commit
RemovalNext ==
    \/ CreateGroup
    \/ RemoveReplica
    \/ Submit
    \/ Propose
    \/ Stop
    \/ PullReady
    \/ WriteTaskRun
    \/ HandleWriteResponse
    \/ SendEvents
    \/ ProcessEvent
    \/ RunCallback
    \/ RaftElect
    \/ RaftCommit
    \/ RaftCommitMore
    \/ RaftCommitAgain
    \/ RaftCommitRemoval

SpecRemoval == MultiRaftInit /\ [][RemovalNext]_vars

(***************************************************************************)
(* PROPERTIES OF THE REPLICA STORAGE                                       *)
(***************************************************************************)

\* the hard state as InitialState reports it
HardStateNow == InitialStateHardState(engine, desc)

\* the step just taken was ApplySnapshot of the snapshot in wreq
AppliedSnapshotStep(ok) ==
    /\ wpc = "ApplySnapshot"
    /\ lastOp'.op = "ApplySnapshot"
    /\ (lastOp'.err = "nil") = ok

\* C3: after a successful ApplySnapshot (a) every key of the snapshot's span
\* and the replicated range state (log, truncated state, applied index,
\* lease, stats) equal the snapshot's contents, (b) the hard state persisted
\* before the call is persisted unchanged, (c) the persisted and the cached
\* last index and applied index equal the snapshot metadata index.
C3_SnapshotAtomicity ==
    [][AppliedSnapshotStep(TRUE) =>
         /\ \A k \in SpanKeys(wreq.snapshot.desc) : engine'.kv[k] = wreq.snapshot.kv.kv[k]
         /\ engine'.log = wreq.snapshot.kv.log
         /\ engine'.ts = wreq.snapshot.kv.ts
         /\ engine'.lease = wreq.snapshot.kv.lease
         /\ engine'.stats = wreq.snapshot.kv.stats
         /\ engine'.hs = engine.hs
         /\ engine'.li = SomeInt(wreq.snapshot.index)
         /\ lastIndex' = wreq.snapshot.index
         /\ loadAppliedIndex(engine', desc') = wreq.snapshot.index
         /\ appliedIndex' = wreq.snapshot.index]_vars

\* C3 happens: a snapshot was applied over a persisted hard state that is
\* not the sender's, and the span holds the sender's values
C3_Witness ==
    /\ lastOp = [op |-> "ApplySnapshot", err |-> "nil"]
    /\ engine.hs.found /\ engine.hs.vote = 2
    /\ engine.kv[1] = "b"
    /\ lastIndex = appliedIndex /\ lastIndex > raftInitialLogIndex

\* C4: when ApplySnapshot returns an error, the engine, the cached last
\* index and applied index, the in-memory descriptor, lease and stats are
\* all as they were before the call.
C4_SnapshotFailureInvisible ==
    [][AppliedSnapshotStep(FALSE) =>
         UNCHANGED <<engine, lastIndex, appliedIndex, desc, lease, stats>>]_vars

\* C5 as stated: after any storage operation, in any order,
\* applied index <= hard state commit <= last index.
C5_AppliedCommitLast ==
    /\ appliedIndex <= HardStateNow.commit
    /\ HardStateNow.commit <= lastIndex

\* C5 amended: applied index <= hard state commit <= last index holds once
\* the hard state, snapshot and entries of a ready batch have all been
\* persisted (no group write is in progress); between the operations of one
\* write only applied index <= last index is kept.
C5_AppliedCommitLast_Idle ==
    /\ wpc = "idle" => C5_AppliedCommitLast
    /\ appliedIndex <= lastIndex

\* C5 happens: a write with entries completed, leaving applied < commit < last
C5_Witness ==
    /\ wpc = "idle"
    /\ lastOp = [op |-> "Append", err |-> "nil"]
    /\ appliedIndex < HardStateNow.commit
    /\ HardStateNow.commit < lastIndex

\* the number of log entries stored in the engine for the range
StoredEntries == Cardinality({i \in LogIndices : engine.log[i].ok})

\* C6: in every reachable state FirstIndex() = truncated state index + 1 and
\* LastIndex() - FirstIndex() + 1 = the number of log entries stored in the
\* engine (no gaps, nothing outside [FirstIndex, LastIndex]); stated for the
\* states in which no storage operation has returned an error.
C6_LogContiguity ==
    wpc # "failed" =>
    /\ FirstIndex(truncatedState, engine, desc) = raftTruncatedState(NoTS, engine, desc).index + 1
    /\ LastIndex(lastIndex) - FirstIndex(truncatedState, engine, desc) + 1 = StoredEntries
    /\ \A i \in LogIndices :
         engine.log[i].ok <=>
            (FirstIndex(truncatedState, engine, desc) <= i /\ i <= LastIndex(lastIndex))

\* the step just taken was Append of the entries in wreq
AppendedStep(ok) ==
    /\ wpc = "Append"
    /\ lastOp'.op = "Append"
    /\ (lastOp'.err = "nil") = ok

\* C7: after a successful Append of a non-empty list every given entry is
\* stored at its index, no entry with a greater index than the last given
\* one remains, and the persisted and the cached last index equal that
\* index; after a failed Append the cached last index and the engine are
\* unchanged.
C7_Append ==
    [][/\ AppendedStep(TRUE) =>
            /\ \A j \in 1..Len(wreq.entries) :
                  engine'.log[wreq.entries[j].index]
                    = Entry(wreq.entries[j].term, wreq.entries[j].size)
            /\ \A i \in LogIndices :
                  i > wreq.entries[Len(wreq.entries)].index => ~engine'.log[i].ok
            /\ engine'.li = SomeInt(wreq.entries[Len(wreq.entries)].index)
            /\ lastIndex' = wreq.entries[Len(wreq.entries)].index
       /\ AppendedStep(FALSE) => UNCHANGED <<engine, lastIndex>>]_vars

\* the accumulated size of a list of entries
RECURSIVE SizeOf(_)
SizeOf(ents) == IF Len(ents) = 0 THEN 0 ELSE ents[1].size + SizeOf(Tail(ents))

\* C8: Entries(lo, hi, maxBytes) returns a contiguous run lo, lo+1, ...
\* that is all of [lo, hi), or with a size limit a non-empty prefix cut once
\* the size exceeds the limit, and never a list with a gap or a list short
\* for another reason.
C8_Entries ==
    (entriesCall.err = "nil" /\ entriesCall.lo < entriesCall.hi) =>
        /\ \A j \in 1..Len(entriesCall.ents) :
              entriesCall.ents[j].index = entriesCall.lo + j - 1
        /\ \/ Len(entriesCall.ents) = entriesCall.hi - entriesCall.lo
           \/ /\ entriesCall.maxBytes > 0
              /\ Len(entriesCall.ents) > 0
              /\ SizeOf(entriesCall.ents) > entriesCall.maxBytes

(***************************************************************************)
(* PROPERTIES OF THE MULTIRAFT LOOP                                        *)
(***************************************************************************)

\* the storage holds what the ready batch rd carries for the group
Persisted(rd) ==
    /\ rd.hardState.ok => replica.commit = rd.hardState.commit
    /\ rd.snapshot.ok => replica.init /\ replica.lastIndex >= rd.snapshot.index
    /\ rd.entries.hi >= rd.entries.lo => replica.lastIndex >= rd.entries.hi

\* this step turns committed entries into events
EmitsEvents == Len(pendingEvents') > Len(pendingEvents)

\* this step sends messages of the group on the transport
SendsGroupMessages ==
    /\ sent' # sent
    /\ \E j \in 1..Len(sent') : sent'[j].type \in {"MsgApp", "MsgAppResp"}

\* this step calls Advance for the batch the library handed out
Advances == multiNode.inFlight /\ ~multiNode'.inFlight

\* this step pulls a ready batch from the library
Pulls == writingGroups = NoReady /\ writingGroups' # NoReady

\* C1: for every ready batch the hard state, snapshot and entries are
\* persisted by the write task and its acknowledgement is received before a
\* committed entry of the batch becomes an event, before a message of the
\* batch is sent and before Advance is called; no further batch is pulled
\* until Advance has been called for the current one.
C1_WriteBeforeApplySendAdvance ==
    [][/\ (EmitsEvents \/ SendsGroupMessages \/ Advances) =>
            /\ writeTask.out
            /\ ~writeTask.in.ok
            /\ Persisted(writingGroups)
       /\ Pulls => ~multiNode.inFlight /\ loopPc = "select"]_vars

\* C1 happens: a batch with an entry went through the write task, its
\* committed entry became an event, its message was sent, Advance was called
C1_Witness ==
    /\ loopPc = "select"
    /\ Len(pendingEvents) > 0
    /\ Len(sent) > 0 /\ sent[1].type \in {"MsgApp", "MsgAppResp"}
    /\ multiNode.ok /\ ~multiNode.inFlight
    /\ multiNode.applied > raftInitialLogIndex
    /\ multiNode.applied = replica.lastIndex

\* the commands emitted and not yet handed to the replica, oldest first
CommandsUnderWay == events \o Commands(pendingEvents)

\* C2: the committed commands of the range are emitted by the loop and
\* handed to the replica by processRaft in strictly increasing order of
\* their raft index.
C2_CommandsInIndexOrder ==
    /\ \A j \in 1..(Len(CommandsUnderWay) - 1) :
          CommandsUnderWay[j].index < CommandsUnderWay[j + 1].index
    /\ Len(CommandsUnderWay) > 0 => CommandsUnderWay[1].index > handedIndex

\* C9: whenever the node has received a coalesced heartbeat it has sent
\* exactly one MsgHeartbeatResp back to the sending node.
C9_HeartbeatAnswered ==
    handled.type = "MsgHeartbeat" =>
        sent = <<[type |-> "MsgHeartbeatResp", to |-> handled.from,
                  from |-> nodeID, index |-> 0, groupID |-> noGroup]>>

\* C10: a coalesced heartbeat is stepped into the group only if the node
\* takes the group's leader to be on the sending node and the sender is not
\* the node itself; a coalesced heartbeat response only if the node takes
\* itself to be the group's leader.
C10_HeartbeatFanout ==
    \A j \in 1..Len(stepped) :
        /\ stepped[j].type = "MsgHeartbeat" =>
              /\ handled.type = "MsgHeartbeat"
              /\ group.ok
              /\ NodeOfReplica(group.leader) = handled.from
              /\ handled.from # nodeID
        /\ stepped[j].type = "MsgHeartbeatResp" =>
              /\ handled.type = "MsgHeartbeatResp"
              /\ group.ok
              /\ NodeOfReplica(group.leader) = nodeID

\* C10 happens: a heartbeat from the leader's node was stepped into the group
C10_Witness ==
    /\ Len(stepped) > 0
    /\ stepped[1].type = "MsgHeartbeat"
    /\ handled.type = "MsgHeartbeat"

\* this step is handleMessage of a message of the range
MessageStep ==
    /\ handled'.type = "MsgApp"
    /\ <<handled, stepped, group>>' # <<handled, stepped, group>>

\* what handleMessage leaves alone when it drops a message
DropsUnchanged ==
    UNCHANGED <<group, nodes, created, multiNode, replica, writingGroups, writeTask,
                pendingEvents, events, callbackChan, raftLog, panicked, loopPc>>

\* what a message of the range does to the group with replica ID to: a stale
\* message is not stepped and leaves the loop as it is, a newer one is
\* stepped only into a group made anew with its replica ID, and no message
\* is stepped into a group with a greater replica ID
MessageHandled ==
    /\ StaleReplicaID(group, handled'.to) => stepped' = <<>> /\ DropsUnchanged
    /\ NewerReplicaID(group, handled'.to) =>
          /\ ~group'.ok \/ (group'.inc # group.inc /\ group'.replicaID = handled'.to)
          /\ stepped' # <<>> => group'.ok
    /\ stepped' # <<>> => group'.ok /\ group'.replicaID <= handled'.to

\* C12 as stated: a message to a replica ID lower than the group's is dropped
\* without being stepped and without changing any state; one to a higher
\* replica ID has the group removed and re-created with that ID before it is
\* stepped; a message is stepped only into a group whose replica ID is not
\* greater than the message's.
C12_StaleAndNewerReplicaID ==
    [][MessageStep =>
         /\ MessageHandled
         /\ StaleReplicaID(group, handled'.to) => handled'.cached = {}]_vars

\* C12 amended: as C12, but the dropped message leaves the groups, the nodes
\* and the library unchanged while the descriptors of its two replicas have
\* been put into the replica descriptor cache.
C12_StaleAndNewerReplicaID_Cached ==
    [][MessageStep =>
         /\ MessageHandled
         /\ handled'.cached = {handled'.from, handled'.to}]_vars

\* C12 happens: the group was re-created for replica ID 4, and a message to
\* the old replica ID has been dropped
C12_Witness ==
    /\ handled.type = "MsgApp" /\ handled.to = 1
    /\ group.ok /\ group.replicaID = 4 /\ group.inc = 2
    /\ stepped = <<>>

\* this step is handleMessage of a snapshot of the range
SnapStep ==
    /\ handled'.type = "MsgSnap"
    /\ <<handled, stepped, group>>' # <<handled, stepped, group>>

\* the store has a range other than the snapshot's whose span holds the end
\* key of the snapshot's range
OverlapsEndKey(snap) ==
    \E d \in replicasByKey : d.start < snap.desc.end /\ snap.desc.end <= d.end

\* C13 as stated: a MsgSnap is dropped before it is stepped when the
\* receiving replica exists, is initialized, and the range of another
\* replica in the end-key index overlaps the snapshot's end key.
C13_SnapshotRejected ==
    (/\ handled.type = "MsgSnap" /\ handled.snapshot.parses
     /\ replica.ok /\ replica.init
     /\ OverlapsEndKey(handled.snapshot)) => stepped = <<>>

\* C13 amended: a MsgSnap is dropped before anything else is done with it
\* exactly when the store has no initialized replica of the range and the
\* snapshot data does not unmarshal or the end-key index has an item with
\* the end key of the snapshot's range; with an initialized replica every
\* snapshot is let through.
C13_SnapshotRejected_Uninitialized ==
    [][SnapStep =>
         ((handled'.cached = {} /\ stepped' = <<>> /\ DropsUnchanged)
            <=> (/\ ~(replica.ok /\ replica.init)
                 /\ \/ ~handled'.snapshot.parses
                    \/ \E d \in replicasByKey : d.end = handled'.snapshot.desc.end))]_vars

\* C13 happens: the store has a placeholder replica and another range with
\* the end key of the snapshot, and the snapshot has been dropped
C13_Witness ==
    /\ handled.type = "MsgSnap" /\ handled.snapshot.parses
    /\ replica.ok /\ ~replica.init
    /\ \E d \in replicasByKey : d.end = handled.snapshot.desc.end
    /\ handled.cached = {} /\ stepped = <<>>

\* this step is handleMessage creating the group for the message's replica ID
CreatesForMessage ==
    /\ handled'.type \in {"MsgApp", "MsgSnap"}
    /\ handled'.cached # {}
    /\ ~group.ok \/ NewerReplicaID(group, handled'.to)
    /\ <<handled, stepped, group>>' # <<handled, stepped, group>>

\* C14: creating the group of a range whose tombstone has a NextReplicaID
\* greater than the requested replica ID fails with ErrGroupDeleted, and
\* neither a replica in the store nor a group in the loop is registered.
C14_TombstoneBlocksCreate ==
    [][(CreatesForMessage /\ tombstone > handled'.to) =>
         /\ handled'.err = "ErrGroupDeleted"
         /\ ~replica'.ok
         /\ ~group'.ok
         /\ stepped' = <<>>]_vars

\* C14 happens: a message for replica ID 1 met the tombstone with
\* NextReplicaID 4 and the creation failed
C14_Witness ==
    /\ handled.type = "MsgApp" /\ handled.to = 1
    /\ tombstone = 4
    /\ handled.err = "ErrGroupDeleted"
    /\ ~replica.ok /\ ~group.ok

\* this step is a tick of the loop
TickStep ==
    /\ handled'.type = "Tick"
    /\ handled.type # "Tick" \/ ticks' # ticks \/ sent' # sent

\* the nodes the loop knows, but for itself
RemoteNodes == {n \in NodeIDs : nodes[n].ok /\ n # nodeID}

\* C11: on every HeartbeatIntervalTicks-th tick the loop sends exactly one
\* coalesced MsgHeartbeat (group 0) to each known remote node and none to
\* itself, on every other tick it sends nothing; a heartbeat or heartbeat
\* response on the transport is never one of a group.
C11_CoalescedHeartbeat ==
    [][/\ TickStep =>
            /\ ticks' = (ticks + 1) % HeartbeatIntervalTicks
            /\ IF ticks + 1 = HeartbeatIntervalTicks
               THEN /\ Len(sent') = Cardinality(RemoteNodes)
                    /\ \A n \in RemoteNodes :
                          \E j \in 1..Len(sent') :
                              sent'[j] = [type |-> "MsgHeartbeat", to |-> n,
                                          from |-> nodeID, index |-> 0,
                                          groupID |-> noGroup]
               ELSE sent' = <<>>
       /\ \A j \in 1..Len(sent') :
             sent'[j].type \in {"MsgHeartbeat", "MsgHeartbeatResp"} =>
                 sent'[j].groupID = noGroup]_vars

\* C11 happens: a tick sent the coalesced heartbeat to both peers
C11_Witness ==
    /\ handled.type = "Tick"
    /\ ticks = 0
    /\ Len(sent) = 2

\* the loop handles the write task's answer for the batch in writingGroups
WriteResponseStep == loopPc = "write" /\ loopPc' = "select"

\* the pending proposals of the group that the acknowledged batch commits
CommitsPending ==
    IF group.ok /\ group.writing
    THEN CommittedCommands(writingGroups.committedEntries.lo,
                           writingGroups.committedEntries.hi) \cap group.pending
    ELSE {}

\* C15: when the loop handles the write task's answer for a batch that
\* commits an entry with the command ID of a pending proposal, the
\* proposal's channel receives nil and the proposal leaves the group's
\* pending set.
C15_CommittedProposalCompletes ==
    [][WriteResponseStep =>
          \A id \in CommitsPending :
              /\ proposals[id].ch = "empty"
              /\ proposals'[id].ch = "nil"
              /\ id \notin group'.pending]_vars

\* C15 happens: a proposal the loop received has nil on its channel and is
\* no longer pending in its group
C15_Witness ==
    \E id \in CommandIDs :
        /\ proposals[id].at = "taken" /\ proposals[id].ch = "nil"
        /\ group.ok /\ id \notin group.pending
        /\ \E i \in 1..Len(raftLog) : raftLog[i].cmd = id

\* the group whose batch the loop handles is the one that pulled it
LiveBatch == group.ok /\ group.writing

\* the term of the last entry the batch commits, the group's committed term
\* when it commits none
BatchTerm ==
    IF writingGroups.committedEntries.hi >= writingGroups.committedEntries.lo
    THEN raftLog[writingGroups.committedEntries.hi - raftInitialLogIndex].term
    ELSE group.committedTerm

\* C16 as stated: when the loop handles a batch that changes the group's
\* leader, every proposal still pending in the group is handed to the
\* library again.
C16_ResubmitOnLeaderChange ==
    [][WriteResponseStep /\ LiveBatch /\ group'.leader # group.leader =>
          group'.pending \subseteq proposed']_vars

\* C16 (amended): when the loop handles a batch whose last committed entry
\* has a term other than the group's committed term while the leader is
\* known, the committed term becomes that term, an EventLeaderElection is
\* emitted and every proposal still pending is proposed again: handed to
\* the library unless a committed membership change waits for its callback;
\* a batch without such an entry, a change of leader or not, hands nothing
\* to the library.
C16_ResubmitOnCommittedTerm ==
    [][WriteResponseStep /\ LiveBatch =>
          IF BatchTerm # group.committedTerm /\ group'.leader # 0
          THEN /\ group'.committedTerm = BatchTerm
               /\ Len(pendingEvents') > 0
               /\ pendingEvents'[Len(pendingEvents')].type = "EventLeaderElection"
               /\ proposed' = IF group'.waitForCallback > 0 \/ nodeID \notin group'.nodeIDs
                              THEN {} ELSE group'.pending
               /\ proposed' \subseteq multiNode'.proposals
          ELSE /\ proposed' = {}
               /\ group'.committedTerm = group.committedTerm
               /\ pendingEvents' = pendingEvents
                     \/ pendingEvents'[Len(pendingEvents')].type # "EventLeaderElection"]_vars

\* C16 happens: the loop handled a batch that moved the committed term and
\* handed a pending proposal to the library again
C16_Witness ==
    /\ handled.type = "WriteResponse"
    /\ group.ok /\ group.committedTerm > raftInitialLogTerm
    /\ proposed # {} /\ proposed = group.pending

\* the loop receives the proposal id from proposalChan
ProposeStep(id) == proposals[id].at = "chan" /\ proposals'[id].at = "taken"

\* the loop runs the closure of a membership change of the present group
CallbackStep ==
    /\ callbackChan.ok /\ ~callbackChan'.ok
    /\ group.ok /\ group.inc = callbackChan.inc

\* C17 as stated: while the membership-change proposal is outstanding in
\* the group, a command proposal the loop receives is recorded as pending
\* and not handed to the library.
C17_HeldWhileChangeOutstanding ==
    [][ProposeStep(1) /\ group.ok /\ 2 \in group.pending =>
          1 \in group'.pending /\ 1 \notin proposed']_vars

\* C17 (amended): a proposal the loop receives for a group this node is a
\* member of is recorded as pending; it is held back from the library
\* exactly when a committed membership change of the group waits for its
\* callback; and when the last such callback has run, every pending
\* proposal of the group is handed to the library.
C17_HeldWhileCallbackPending ==
    [][/\ \A id \in CommandIDs :
             ProposeStep(id) /\ group.ok /\ nodeID \in group.nodeIDs =>
                 /\ id \in group'.pending
                 /\ IF group.waitForCallback > 0
                    THEN proposed' = {} /\ multiNode' = multiNode
                    ELSE proposed' = {id} /\ id \in multiNode'.proposals
       /\ CallbackStep =>
             /\ group'.waitForCallback = group.waitForCallback - 1
             /\ group'.pending = group.pending
             /\ IF group'.waitForCallback <= 0
                THEN proposed' = group.pending /\ proposed' \subseteq multiNode'.proposals
                ELSE proposed' = {} /\ multiNode' = multiNode]_vars

\* C17 happens: a proposal was held aside, and the callback of the
\* membership change handed it to the library
C17_Witness ==
    /\ handled.type = "Callback"
    /\ group.ok /\ group.waitForCallback = 0
    /\ proposed # {} /\ proposed \subseteq group.pending
    /\ proposed \subseteq multiNode.proposals

\* C18: once the loop has stopped, every proposal that was submitted has a
\* value on its channel: its result, or the shutting-down error state.stop
\* sent; no submitter is left waiting.
C18_StopAnswersEveryProposal ==
    loopPc = "stopped" =>
        \A id \in CommandIDs : proposals[id].at # "none" => proposals[id].ch # "empty"

\* the items of the index whose end key is after the start of the lookup
EndsAfterStart == {r \in replicasByKey : r.end > lookup.start}

\* the keys the lookup asks for: the start key alone without an end or with
\* the end equal to the start, the keys from start up to end otherwise
RequestedKeys ==
    IF lookup.end = NilKey \/ lookup.end = lookup.start THEN {lookup.start}
    ELSE {k \in 0..MaxKey : lookup.start <= k /\ k < lookup.end}

\* the span holds every requested key and the end of the request
Holds(r) ==
    /\ RequestedKeys # {}
    /\ \A k \in RequestedKeys : r.start <= k /\ k < r.end
    /\ lookup.end # NilKey => lookup.end <= r.end

\* C19: LookupReplica returns the replica with the smallest end key
\* strictly greater than start if that replica's span contains the
\* requested keys, and nothing otherwise; what it returns contains the
\* requested keys.
C19_LookupReplica ==
    lookup.called =>
        /\ \A r \in EndsAfterStart :
              (\A q \in EndsAfterStart : r.end <= q.end) =>
                  lookup.rng = IF Holds(r) THEN r ELSE NoSpan
        /\ EndsAfterStart = {} => lookup.rng = NoSpan
        /\ lookup.rng # NoSpan => lookup.rng \in replicasByKey /\ Holds(lookup.rng)

\* C19 happens: of two ranges that end after the start key, the lookup of a
\* key range returned the one that ends first
C19_Witness ==
    /\ lookup.called /\ lookup.rng # NoSpan
    /\ lookup.end # NilKey /\ lookup.end > lookup.start
    /\ Cardinality(EndsAfterStart) > 1

\* the key is a range-local key
IsRangeLocal(k) == k > KeyMin /\ k < LocalMax

\* one endpoint of the range is a range-local key and the other is not
MixesLocalAndUser(start, end) == IsRangeLocal(start) # IsRangeLocal(end)

\* C20: verifyKeys accepts exactly when start < KeyMax and either the
\* operation is not a range operation and end is empty, or it is one and
\* start < end <= KeyMax without a range-local key being mixed with another
\* key at the endpoints.
C20_VerifyKeys ==
    verified.called =>
        LET start == verified.start
            end == verified.end
        IN verified.err = "nil" <=>
              /\ start < KeyMax
              /\ \/ ~verified.checkEndKey /\ Empty(end)
                 \/ /\ verified.checkEndKey
                    /\ end # NilKey /\ start < end /\ end <= KeyMax
                    /\ ~MixesLocalAndUser(start, end)

(***************************************************************************)
(* BATCHES  (roachpb batch.go): BatchRequest.Split                         *)
(***************************************************************************)

\* the request types of the model
Methods == {"Get", "Put", "ConditionalPut", "ReverseScan", "EndTransaction",
            "AdminSplit"}

\* Request.flags: the flags a request type advertises
flags(method) ==
    CASE method = "Get" -> {"isRead", "isTxn"}
      [] method = "Put" -> {"isWrite", "isTxn", "isTxnWrite"}
      [] method = "ConditionalPut" -> {"isRead", "isWrite", "isTxn", "isTxnWrite"}
      [] method = "ReverseScan" -> {"isRead", "isRange", "isReverse", "isTxn"}
      [] method = "EndTransaction" -> {"isWrite", "isAlone"}
      [] method = "AdminSplit" -> {"isAdmin", "isAlone"}

\* BatchRequest.flags: the flags of all requests of the batch
BatchFlags(reqs) == UNION {flags(reqs[i]) : i \in 1..Len(reqs)}

\* compatible, the closure of Split: may a request with newFlags join a part
\* whose requests have exFlags
compatible_Always(exFlags, newFlags) == TRUE

compatible_MaskWithoutWrite(exFlags, newFlags) ==
    IF exFlags = {} THEN TRUE
    ELSE IF "isAlone" \in newFlags THEN FALSE
    ELSE {"isAdmin", "isReverse"} \cap exFlags = {"isAdmin", "isReverse"} \cap newFlags

compatible(exFlags, newFlags) ==
    IF exFlags = {} THEN TRUE
    ELSE IF "isAlone" \in newFlags THEN FALSE
    ELSE {"isWrite", "isAdmin", "isReverse"} \cap exFlags
            = {"isWrite", "isAdmin", "isReverse"} \cap newFlags

\* the inner loop of Split from request i on, gFlags being the flags of the
\* requests before it: the length of the part that starts the batch
RECURSIVE FirstPart(_, _, _)
FirstPart(reqs, i, gFlags) ==
    IF i > Len(reqs) THEN Len(reqs)
    ELSE IF ~compatible(gFlags, flags(reqs[i])) THEN i - 1
    ELSE FirstPart(reqs, i + 1, gFlags \cup flags(reqs[i]))

Split_FirstOnly(reqs) == IF reqs = <<>> THEN <<>> ELSE <<SubSeq(reqs, 1, 1)>>

\* BatchRequest.Split
RECURSIVE Split(_)
Split(reqs) ==
    IF reqs = <<>> THEN <<>>
    ELSE LET n == FirstPart(reqs, 1, {})
         IN  <<SubSeq(reqs, 1, n)>> \o Split(SubSeq(reqs, n + 1, Len(reqs)))

\* the batches of up to MaxRequests requests
Batches == UNION {[1..n -> Methods] : n \in 1..MaxRequests}

\* a batch is split
CallSplit ==
    /\ \E reqs \in Batches :
        splitCall' = [called |-> TRUE, Requests |-> reqs, parts |-> Split(reqs)]
    /\ UNCHANGED <<send, booted, rangeVars>>
    /\ UNCHANGED <<group, nodes, created, writingGroups, writeTask, pendingEvents,
                   events, callbackChan, replica, multiNode, raftLog, sent, stepped,
                   handled, panicked, loopPc, handedIndex>>
    /\ UNCHANGED <<storageVars, ticks, replicasByKey, tombstone, proposals, proposed,
                   elections, lookup, verified>>

SpecSplit == MultiRaftInit /\ [][CallSplit]_vars

\* the flags of a request that Split compares
Masked(method) == flags(method) \cap {"isWrite", "isAdmin", "isReverse"}

\* the requests of the parts, one part after the other
RECURSIVE Flatten(_)
Flatten(parts) == IF parts = <<>> THEN <<>> ELSE Head(parts) \o Flatten(Tail(parts))

\* C28: in the parts Split returns, all requests of a part have the same
\* values of isWrite, isAdmin and isReverse (so no part holds a mutating
\* and a non-mutating request), and the grouping is greedy: the request
\* that starts the next part could not have joined the part before it
\* (it is isAlone, or it differs from that part in one of the three flags)
C28_SplitGroupsByFlags ==
    splitCall.called =>
        LET parts == splitCall.parts
        IN  /\ \A p \in 1..Len(parts) : \A i, j \in 1..Len(parts[p]) :
                /\ Masked(parts[p][i]) = Masked(parts[p][j])
                /\ ("isWrite" \in flags(parts[p][i])) = ("isWrite" \in flags(parts[p][j]))
            /\ \A p \in 1..(Len(parts) - 1) :
                \/ "isAlone" \in flags(parts[p + 1][1])
                \/ Masked(parts[p + 1][1]) # Masked(parts[p][1])

\* a batch split into several parts, one of them with two requests
C28_Witness ==
    /\ splitCall.called
    /\ Len(splitCall.parts) > 1
    /\ \E p \in 1..Len(splitCall.parts) : Len(splitCall.parts[p]) > 1

\* C29: in the parts Split returns, a request flagged isAlone is the only
\* request of its part
C29_AloneIsAlone ==
    splitCall.called =>
        \A p \in 1..Len(splitCall.parts) : \A i \in 1..Len(splitCall.parts[p]) :
            "isAlone" \in flags(splitCall.parts[p][i]) => Len(splitCall.parts[p]) = 1

\* C30: the parts Split returns, one after the other, are the requests of
\* the batch in their order; no part is empty; and Split returns a part
\* it is given as the only part
C30_SplitPreservesAndIsIdempotent ==
    splitCall.called =>
        /\ Flatten(splitCall.parts) = splitCall.Requests
        /\ \A p \in 1..Len(splitCall.parts) :
            /\ splitCall.parts[p] # <<>>
            /\ Split(splitCall.parts[p]) = <<splitCall.parts[p]>>

\* a batch of three requests split into more than one part
C30_Witness ==
    /\ splitCall.called
    /\ Len(splitCall.Requests) = 3
    /\ Len(splitCall.parts) > 1

(***************************************************************************)
(* BOOTSTRAP  (storage/store.go): Store.Bootstrap                          *)
(***************************************************************************)

\* the cluster IDs of the model
ClusterIDs == {1, 2}

\* the engines Bootstrap may be given
Engines == [ident : {0} \cup ClusterIDs, others : BOOLEAN]

\* the engine calls of Bootstrap that may return an error
EngineCalls == {"Open", "Scan", "MVCCGetProto", "MVCCPutProto"}

Bootstrap_Overwrite(nodeID0, eng, cluster, fails) ==
    [engine |-> [eng EXCEPT !.ident = cluster], err |-> "nil"]

\* Store.Bootstrap(ident) of a store whose s.Ident.NodeID is nodeID0, on the
\* engine eng, the engine call fails returning an error: the engine
\* afterwards and the error returned
Bootstrap(nodeID0, eng, cluster, fails) ==
    IF nodeID0 # 0 THEN [engine |-> eng, err |-> "engine already bootstrapped"]
    ELSE IF fails = "Open" THEN [engine |-> eng, err |-> "Open"]
    ELSE IF fails = "Scan" THEN [engine |-> eng, err |-> "unable to access"]
    ELSE IF eng.ident # 0 \/ eng.others
    THEN (IF fails = "MVCCGetProto"
          THEN [engine |-> eng, err |-> "cluster ID could not be determined"]
          ELSE IF eng.ident # 0
          THEN [engine |-> eng, err |-> "already belongs to cockroach cluster"]
          ELSE [engine |-> eng, err |-> "not-empty and has invalid contents"])
    ELSE IF fails = "MVCCPutProto" THEN [engine |-> eng, err |-> "MVCCPutProto"]
    ELSE [engine |-> [eng EXCEPT !.ident = cluster], err |-> "nil"]

\* a store is bootstrapped
CallBootstrap ==
    /\ \E nodeID0 \in {0, nodeID}, eng \in Engines, cluster \in ClusterIDs,
          fails \in {"none"} \cup EngineCalls :
        LET res == Bootstrap(nodeID0, eng, cluster, fails)
        IN  booted' = [called |-> TRUE, NodeID |-> nodeID0, before |-> eng,
                       ClusterID |-> cluster, fails |-> fails,
                       after |-> res.engine, err |-> res.err]
    /\ UNCHANGED <<send, splitCall, rangeVars>>
    /\ UNCHANGED <<group, nodes, created, writingGroups, writeTask, pendingEvents,
                   events, callbackChan, replica, multiNode, raftLog, sent, stepped,
                   handled, panicked, loopPc, handedIndex>>
    /\ UNCHANGED <<storageVars, ticks, replicasByKey, tombstone, proposals, proposed,
                   elections, lookup, verified>>

SpecBootstrap == MultiRaftInit /\ [][CallBootstrap]_vars

\* C27: Store.Bootstrap writes the StoreIdent only on an engine without
\* any key (and for a store whose ident is not set): then, if it returns
\* no error, the engine holds the requested ident; on every engine that
\* holds a key, an ident of the requested cluster included, it returns an
\* error and leaves the engine as it was; and whenever it returns an error
\* the engine is as it was
C27_BootstrapOnlyOnEmptyEngine ==
    booted.called =>
        /\ booted.after # booted.before =>
              booted.before = NoKeys /\ booted.NodeID = 0
        /\ booted.before # NoKeys => booted.err # "nil"
        /\ booted.err # "nil" => booted.after = booted.before
        /\ booted.err = "nil" => booted.after = [NoKeys EXCEPT !.ident = booted.ClusterID]

\* Bootstrap has written the ident on an engine without keys
C27_Witness ==
    /\ booted.called
    /\ booted.before = NoKeys
    /\ booted.after.ident = booted.ClusterID
    /\ booted.err = "nil"

\* C27 as stated: the StoreIdent may be written on an engine without keys
\* and on an engine whose ident is of the requested cluster (there
\* Bootstrap, of a store whose ident is not set and with no engine call
\* failing, returns no error and the engine holds the ident), and on any
\* other engine it returns an error and writes nothing
C27_BootstrapOnEmptyOrMatching ==
    booted.called =>
        LET allowed == \/ booted.before = NoKeys
                       \/ booted.before.ident = booted.ClusterID
        IN  /\ booted.after # booted.before => allowed
            /\ ~allowed => booted.err # "nil" /\ booted.after = booted.before
            /\ allowed /\ booted.NodeID = 0 /\ booted.fails = "none" =>
                  booted.err = "nil" /\ booted.after.ident = booted.ClusterID

(***************************************************************************)
(* SEND  (storage/store.go): Store.Send and resolveWriteIntentError        *)
(***************************************************************************)

\* Timestamp.Less
Less(a, b) ==
    a.WallTime < b.WallTime \/ (a.WallTime = b.WallTime /\ a.Logical < b.Logical)

\* Timestamp.Next (below the last logical tick)
TimestampNext(t) == [t EXCEPT !.Logical = @ + 1]

\* Timestamp.Add
Add(t, wallTime, logical) ==
    [WallTime |-> t.WallTime + wallTime, Logical |-> t.Logical + logical]

\* Timestamp.Forward
Forward(t, to) == IF Less(t, to) THEN to ELSE t

\* hlc.Clock.Now with the clock's state c and the physical time
Now(c, physical) ==
    IF physical > c.WallTime THEN [WallTime |-> physical, Logical |-> 0]
    ELSE TimestampNext(c)

\* hlc.Clock.Update: the clock's state after it has seen the timestamp rt
Update(c, rt) == Forward(c, rt)

\* the methods of the requests of a batch
MethodsOf(reqs) == [i \in 1..Len(reqs) |-> reqs[i].method]

\* BatchRequest.IsWrite
IsWrite(ba) == "isWrite" \in BatchFlags(MethodsOf(ba.Requests))

\* roachpb.IsReadOnly of a request
IsReadOnly(args) ==
    "isRead" \in flags(args.method) /\ "isWrite" \notin flags(args.method)

\* the batches Store.Send is given: one part of a split batch, reads or
\* writes of a key that is valid or not, with or without a transaction and
\* with or without a timestamp
SentBatches ==
    [Timestamp : [WallTime : 0..MaxWall, Logical : {0}],
     Txn : BOOLEAN,
     Requests : {reqs \in UNION {[1..n -> [method : {"Get", "Put"},
                                            Key : {AddressKey(1), KeyMax}]] :
                                 n \in 1..2} :
                    Len(Split(MethodsOf(reqs))) = 1}]

\* the intents a WriteIntentError lists: the status and the timestamp of
\* the transaction of each
Intents ==
    [Status : {"PENDING", "COMMITTED", "ABORTED"},
     Timestamp : [WallTime : {1, MaxWall}, Logical : {0}]]

\* what Replica.Send answers a batch of n requests: a response, or an
\* error; a WriteIntentError comes without an index or with that of the
\* last request
Replies(n) ==
    {[NoError EXCEPT !.type = t] :
        t \in {"nil", "ReadWithinUncertaintyIntervalError", "RangeKeyMismatchError"}}
    \cup {[NoError EXCEPT !.type = "WriteTooOldError", !.ExistingTimestamp = t] :
            t \in [WallTime : {1, MaxWall}, Logical : {0}]}
    \cup {[NoError EXCEPT !.type = "WriteIntentError", !.Intents = is, !.index = i] :
            is \in UNION {[1..k -> Intents] : k \in 1..2}, i \in {0, n}}

\* conflict resolution of the replica's error pushes a transaction
Pushes(reply) ==
    /\ reply.type = "WriteIntentError"
    /\ reply.index > 0
    /\ \E k \in 1..Len(reply.Intents) : reply.Intents[k].Status = "PENDING"

TimestampTooFar_Never(s) == FALSE

\* the batch has a timestamp that Store.Send rejects as lying in the future
TimestampTooFar(s) ==
    /\ s.ba.Timestamp # ZeroTimestamp
    /\ s.maxOffset > 0
    /\ s.ba.Timestamp.WallTime - s.physical > s.maxOffset

\* the start of Store.Send up to its retry loop
BeginSend(s) ==
    IF \E i \in 1..Len(s.ba.Requests) :
            verifyKeys(s.ba.Requests[i].Key, NilKey, FALSE) # "nil"
    THEN [s EXCEPT !.pc = "done", !.err.type = "verifyKeys"]
    ELSE IF TimestampTooFar(s)
    THEN [s EXCEPT !.pc = "done", !.err.type = "timestamp in the future"]
    ELSE LET assign == s.ba.Timestamp = ZeroTimestamp /\ ~s.ba.Txn
             now == Now(s.clock, s.physical)
             ts == IF assign
                   THEN Forward(s.ba.Timestamp, Add(now, 0, Len(s.ba.Requests) - 1))
                   ELSE s.ba.Timestamp
         IN  [s EXCEPT !.pc = "next",
                       !.ba.Timestamp = ts,
                       !.clock = Update(IF assign THEN now ELSE s.clock, ts),
                       !.currentAttempt = 0,
                       !.isReset = TRUE]

\* retry.Retry.Next finds the retries used up
Exhausted(s) == ~s.isReset /\ s.maxRetries > 0 /\ s.currentAttempt = s.maxRetries

\* retry.Retry.Next otherwise: at once after a reset, after the backoff wait
\* if not
RetryNext(s) ==
    IF s.isReset THEN [s EXCEPT !.isReset = FALSE]
    ELSE [s EXCEPT !.currentAttempt = @ + 1, !.waits = @ + 1]

\* retry.Retry.Reset, and the `continue` of the loop
Reset(s) == [s EXCEPT !.currentAttempt = 0, !.isReset = TRUE, !.pc = "next"]

PushTypeOf_Swapped(ba) == IF IsWrite(ba) THEN "PUSH_TIMESTAMP" ELSE "ABORT_TXN"

\* the push type Store.Send chooses for a write intent error
PushTypeOf(ba) == IF IsWrite(ba) THEN "ABORT_TXN" ELSE "PUSH_TIMESTAMP"

IsPending(intent) == intent.Status = "PENDING"

NeedsNoPush(intent) == intent.Status # "PENDING"

PushNow_BatchTimestamp(s) == s.ba.Timestamp

\* the `now` of the pushes: s.Clock().Now()
PushNow(s) == Now(s.clock, s.physical)

PushFailure_PushErr(s, wiErr, readOnly) ==
    [NoError EXCEPT !.type = "TransactionPushError"]

\* what resolveWriteIntentError returns when the push returned an error
PushFailure(s, wiErr, readOnly) ==
    IF s.ba.Txn /\ ~readOnly THEN [NoError EXCEPT !.type = "TransactionPushError"]
    ELSE wiErr

\* Store.resolveWriteIntentError for the error wiErr of the request args;
\* pushFails: the push returns an error
resolveWriteIntentError(s, wiErr, args, pushType, pushFails) ==
    LET readOnly == IsReadOnly(args)
        pushIntents == SelectSeq(wiErr.Intents, IsPending)
        resolveIntents == SelectSeq(wiErr.Intents, NeedsNoPush)
        now == PushNow(s)
        pushes == [k \in 1..Len(pushIntents) |->
                     [PusherTxn |-> s.ba.Txn, PusheeTxn |-> pushIntents[k],
                      PushTo |-> s.ba.Timestamp, Now |-> now, PushType |-> pushType]]
        s1 == [s EXCEPT !.clock = now, !.now = now, !.pushes = pushes]
    IN  IF pushFails /\ pushes # <<>>
        THEN [s1 EXCEPT !.pushErr = "TransactionPushError",
                        !.err = PushFailure(s, wiErr, readOnly)]
        ELSE [s1 EXCEPT !.resolveIntents = resolveIntents \o pushIntents,
                        !.err = [wiErr EXCEPT !.Resolved = TRUE]]

\* the loop over the intents of an unresolved WriteIntentError
RECURSIVE PastIntents(_, _, _)
PastIntents(ts, intents, isWrite) ==
    IF intents = <<>> THEN ts
    ELSE PastIntents(IF isWrite /\ Less(ts, Head(intents).Timestamp)
                     THEN TimestampNext(Head(intents).Timestamp) ELSE ts,
                     Tail(intents), isWrite)

OnWriteTooOld_Backoff(s) ==
    [s EXCEPT !.pc = "next", !.ba.Timestamp = TimestampNext(s.err.ExistingTimestamp)]

\* the switch of Store.Send on a WriteTooOldError
OnWriteTooOld(s) ==
    Reset([s EXCEPT !.ba.Timestamp = TimestampNext(s.err.ExistingTimestamp)])

\* the switch of Store.Send on a WriteIntentError
OnWriteIntent(s) ==
    IF s.err.Resolved THEN Reset(s)
    ELSE [s EXCEPT !.pc = "next",
                   !.ba.Timestamp =
                       PastIntents(s.ba.Timestamp, s.err.Intents, IsWrite(s.ba))]

\* the switch of Store.Send on the error s.err
ErrorSwitch(s) ==
    CASE s.err.type = "WriteTooOldError" -> OnWriteTooOld(s)
      [] s.err.type = "WriteIntentError" -> OnWriteIntent(s)
      [] OTHER -> [s EXCEPT !.pc = "done"]

\* the body of the retry loop of Store.Send: found says whether GetReplica
\* finds the range, reply is what the replica answers
Attempt(s, found, reply, pushFails) ==
    IF ~found THEN [s EXCEPT !.pc = "done", !.err.type = "RangeNotFoundError"]
    ELSE LET s1 == [s EXCEPT !.invoked = @ + 1, !.reply = reply, !.err = reply]
         IN  IF reply.type = "WriteIntentError" /\ reply.index > 0
             THEN ErrorSwitch(resolveWriteIntentError(
                      s1, reply, s.ba.Requests[reply.index], PushTypeOf(s.ba),
                      pushFails))
             ELSE ErrorSwitch(s1)

\* Store.Send is called and runs up to its retry loop
StartSend ==
    /\ send.pc = "idle"
    /\ \E maxOffset \in {0, 1}, maxRetries \in {0, 1}, ba \in SentBatches :
        send' = BeginSend([send EXCEPT !.maxOffset = maxOffset,
                                       !.maxRetries = maxRetries, !.ba = ba])
    /\ UNCHANGED <<booted, splitCall, rangeVars>>
    /\ UNCHANGED <<group, nodes, created, writingGroups, writeTask, pendingEvents,
                   events, callbackChan, replica, multiNode, raftLog, sent, stepped,
                   handled, panicked, loopPc, handedIndex>>
    /\ UNCHANGED <<storageVars, ticks, replicasByKey, tombstone, proposals, proposed,
                   elections, lookup, verified>>

\* the condition of the retry loop of Store.Send, next(&r): the loop ends
\* with the retries used up, or its body runs, after the backoff wait
\* unless the retry was reset; what the round before left is gone
RetryStep ==
    /\ send.pc = "next"
    /\ send' = IF Exhausted(send)
               THEN [send EXCEPT !.pc = "done",
                                 !.err = IF send.ba.Txn
                                         THEN [NoError EXCEPT
                                                  !.type = "TransactionRetryError"]
                                         ELSE @]
               ELSE [RetryNext(send) EXCEPT !.pc = "loop", !.reply = NoError,
                                            !.err = NoError, !.pushes = <<>>,
                                            !.now = ZeroTimestamp,
                                            !.pushErr = "nil",
                                            !.resolveIntents = <<>>]
    /\ UNCHANGED <<booted, splitCall, rangeVars>>
    /\ UNCHANGED <<group, nodes, created, writingGroups, writeTask, pendingEvents,
                   events, callbackChan, replica, multiNode, raftLog, sent, stepped,
                   handled, panicked, loopPc, handedIndex>>
    /\ UNCHANGED <<storageVars, ticks, replicasByKey, tombstone, proposals, proposed,
                   elections, lookup, verified>>

\* the body of the retry loop of Store.Send runs
SendAttempt ==
    /\ send.pc = "loop"
    /\ send.invoked < MaxAttempts
    /\ \/ send' = Attempt(send, FALSE, NoError, FALSE)
       \/ \E reply \in Replies(Len(send.ba.Requests)) :
              \E pushFails \in {FALSE} \cup {Pushes(reply)} :
                  send' = Attempt(send, TRUE, reply, pushFails)
    /\ UNCHANGED <<booted, splitCall, rangeVars>>
    /\ UNCHANGED <<group, nodes, created, writingGroups, writeTask, pendingEvents,
                   events, callbackChan, replica, multiNode, raftLog, sent, stepped,
                   handled, panicked, loopPc, handedIndex>>
    /\ UNCHANGED <<storageVars, ticks, replicasByKey, tombstone, proposals, proposed,
                   elections, lookup, verified>>

\* the physical clock of the store advances
Elapse ==
    /\ send.pc # "done"
    /\ send.physical < MaxWall
    /\ send' = [send EXCEPT !.physical = @ + 1]
    /\ UNCHANGED <<booted, splitCall, rangeVars>>
    /\ UNCHANGED <<group, nodes, created, writingGroups, writeTask, pendingEvents,
                   events, callbackChan, replica, multiNode, raftLog, sent, stepped,
                   handled, panicked, loopPc, handedIndex>>
    /\ UNCHANGED <<storageVars, ticks, replicasByKey, tombstone, proposals, proposed,
                   elections, lookup, verified>>

SendNext == StartSend \/ RetryStep \/ SendAttempt \/ Elapse

SpecSend == MultiRaftInit /\ [][SendNext]_vars

\* Store.Send has ended refusing the batch for a key or for its timestamp
Rejected(s) == s.pc = "done" /\ s.err.type \in {"verifyKeys", "timestamp in the future"}

\* the step is the start of Store.Send
SendStarts == send.pc = "idle" /\ send'.pc # "idle"

\* the keys of all requests of the batch are valid
ValidKeys(ba) == \A i \in 1..Len(ba.Requests) : ba.Requests[i].Key < KeyMax

\* C21: with a positive MaxOffset, Store.Send rejects a batch of valid keys
\* whose non-zero timestamp has a wall time more than MaxOffset above the
\* physical time of the store's clock; when Send rejects a batch for this
\* or for an invalid key, the state of the clock is what it was and the
\* replica has not been called
C21_RejectsFutureTimestamp ==
    [][SendStarts =>
        /\ ( /\ ValidKeys(send'.ba)
             /\ send'.ba.Timestamp # ZeroTimestamp
             /\ send'.maxOffset > 0
             /\ send'.ba.Timestamp.WallTime - send.physical > send'.maxOffset )
           => Rejected(send')
        /\ Rejected(send') =>
              /\ send'.clock = send.clock
              /\ send'.invoked = 0]_vars

\* Send has rejected a batch for its timestamp
C21_Witness ==
    /\ send.pc = "done"
    /\ send.err.type = "timestamp in the future"
    /\ ValidKeys(send.ba)
    /\ send.invoked = 0

\* C21 as stated: whatever MaxOffset is, Store.Send rejects a batch whose
\* non-zero timestamp is more than MaxOffset above the store's clock
C21_RejectsFutureTimestampAlways ==
    [][SendStarts =>
        /\ ( /\ ValidKeys(send'.ba)
             /\ send'.ba.Timestamp # ZeroTimestamp
             /\ send'.ba.Timestamp.WallTime - send.physical > send'.maxOffset )
           => Rejected(send')
        /\ Rejected(send') => send'.clock = send.clock /\ send'.invoked = 0]_vars

\* the step is a round of the retry loop in which the replica was called
ReplicaAnswers == send.pc = "loop" /\ send'.invoked = send.invoked + 1

\* the step is the condition of the retry loop letting the next round run
NextRound == send.pc = "next" /\ send'.pc = "loop"

\* C22: when the replica returns WriteTooOld(existing_ts), the batch
\* timestamp becomes existing_ts.Next(), the retry is reset and the loop
\* goes on; the next round then starts without a backoff wait and with
\* the attempt count still at zero
C22_WriteTooOldRetriesAtOnce ==
    [][/\ (ReplicaAnswers /\ send'.reply.type = "WriteTooOldError") =>
              /\ send'.pc = "next"
              /\ send'.ba.Timestamp.WallTime = send'.reply.ExistingTimestamp.WallTime
              /\ send'.ba.Timestamp.Logical = send'.reply.ExistingTimestamp.Logical + 1
              /\ send'.isReset
              /\ send'.currentAttempt = 0
       /\ (send.pc = "next" /\ send.reply.type = "WriteTooOldError"
             /\ send'.pc # "next") =>
              /\ send'.pc = "loop"
              /\ send'.waits = send.waits
              /\ send'.currentAttempt = 0
              /\ send'.ba = send.ba]_vars

\* in its second round, entered after a backoff wait, the replica has
\* returned WriteTooOld: the retry is reset and the batch is at the new
\* timestamp
C22_Witness ==
    /\ send.pc = "next"
    /\ send.reply.type = "WriteTooOldError"
    /\ send.invoked = 2
    /\ send.waits = 1
    /\ send.isReset
    /\ send.currentAttempt = 0
    /\ Less(send.reply.ExistingTimestamp, send.ba.Timestamp)

\* C23: when the replica returns WriteIntent: if conflict resolution marked
\* the error resolved, the retry is reset and the next round starts without
\* a backoff wait; otherwise, for a writing batch, the batch timestamp after
\* the step is greater than the timestamp of the transaction of every intent
\* listed, and the next round starts after a backoff wait unless the
\* retries are used up
C23_WriteIntentRetry ==
    [][/\ (ReplicaAnswers /\ send'.err.type = "WriteIntentError") =>
              /\ send'.pc = "next"
              /\ send'.err.Resolved => send'.isReset /\ send'.currentAttempt = 0
              /\ ~send'.err.Resolved =>
                    /\ ~send'.isReset
                    /\ IsWrite(send'.ba) =>
                          \A k \in 1..Len(send'.err.Intents) :
                              Less(send'.err.Intents[k].Timestamp, send'.ba.Timestamp)
       /\ (NextRound /\ send.err.type = "WriteIntentError") =>
              send'.waits = IF send.err.Resolved THEN send.waits ELSE send.waits + 1]_vars

\* the conflicting request of the batch: the one the error's index names
Conflicting(s) == s.ba.Requests[s.reply.index]

\* conflict resolution has run on the replica's error
ResolutionRan(s) == s.reply.type = "WriteIntentError" /\ s.reply.index > 0

\* C24: every push built for a write-intent conflict has the push type
\* ABORT_TXN if the conflicting request writes and PUSH_TIMESTAMP if it is
\* read-only
C24_PushType ==
    ResolutionRan(send) =>
        \A k \in 1..Len(send.pushes) :
            send.pushes[k].PushType =
                IF "isWrite" \in flags(Conflicting(send).method) THEN "ABORT_TXN"
                ELSE "PUSH_TIMESTAMP"

\* a read has pushed the timestamp of a transaction
C24_Witness ==
    /\ ResolutionRan(send)
    /\ send.pushes # <<>>
    /\ send.pushes[1].PushType = "PUSH_TIMESTAMP"
    /\ Conflicting(send).method = "Get"

\* the number of intents of a pending transaction among the intents
RECURSIVE PendingCount(_)
PendingCount(intents) ==
    IF intents = <<>> THEN 0
    ELSE (IF Head(intents).Status = "PENDING" THEN 1 ELSE 0) + PendingCount(Tail(intents))

\* C25: when conflict resolution runs, the `now` of every push it builds is
\* the value the store's clock gives at that moment: it is above the state
\* the clock had before, not below the physical time, and the state of the
\* clock afterwards, whatever the batch timestamp is; the clock never goes
\* back, so the `now` of a later round is above that of an earlier one; and
\* there is one push for every intent of a pending transaction, in their
\* order, and none for a committed or aborted one
C25_PushNowIsClock ==
    [][/\ ~Less(send'.clock, send.clock)
       /\ (ReplicaAnswers /\ ResolutionRan(send')) =>
              /\ Len(send'.pushes) = PendingCount(send'.reply.Intents)
              /\ \A k \in 1..Len(send'.pushes) :
                    /\ send'.pushes[k].PusheeTxn.Status = "PENDING"
                    /\ send'.pushes[k].Now = send'.clock
                    /\ Less(send.clock, send'.pushes[k].Now)
                    /\ send'.pushes[k].Now.WallTime >= send.physical
                    /\ send'.pushes[k].PushTo = send.ba.Timestamp
              /\ \A k, l \in 1..Len(send'.pushes) :
                    k < l => \E i, j \in 1..Len(send'.reply.Intents) :
                                /\ i < j
                                /\ send'.reply.Intents[i] = send'.pushes[k].PusheeTxn
                                /\ send'.reply.Intents[j] = send'.pushes[l].PusheeTxn]_vars

\* in a later round, a push whose `now` is not the batch timestamp, for one
\* pending intent of two
C25_Witness ==
    /\ ResolutionRan(send)
    /\ send.invoked = 2
    /\ Len(send.reply.Intents) = 2
    /\ Len(send.pushes) = 1
    /\ send.pushes[1].Now # send.ba.Timestamp
    /\ Less(send.pushes[1].Now, send.ba.Timestamp)

\* how often the intent is among the intents
RECURSIVE Count(_, _)
Count(intent, intents) ==
    IF intents = <<>> THEN 0
    ELSE (IF Head(intents) = intent THEN 1 ELSE 0) + Count(intent, Tail(intents))

\* C26: when conflict resolution has run in a round of the loop, if the
\* push failed: for a read-only conflicting request of a batch without
\* transaction the error is the replica's WriteIntent error, not resolved,
\* and Send goes on to the next round, which waits for the backoff; for a
\* writing request of a batch with a transaction the error is the push
\* error and Send returns it; if the push did not fail the WriteIntent
\* error is marked resolved and every intent of the error has been handed
\* to intent resolution
C26_PushOutcome ==
    [][(ReplicaAnswers /\ ResolutionRan(send')) =>
        /\ (send'.pushErr # "nil" /\ ~send'.ba.Txn /\ IsReadOnly(Conflicting(send'))) =>
              /\ send'.err = send'.reply
              /\ ~send'.err.Resolved
              /\ send'.pc = "next"
              /\ ~send'.isReset
              /\ send'.resolveIntents = <<>>
        /\ (send'.pushErr # "nil" /\ send'.ba.Txn /\ ~IsReadOnly(Conflicting(send'))) =>
              /\ send'.err.type = send'.pushErr
              /\ send'.pc = "done"
              /\ send'.resolveIntents = <<>>
        /\ send'.pushErr = "nil" =>
              /\ send'.err = [send'.reply EXCEPT !.Resolved = TRUE]
              /\ Len(send'.resolveIntents) = Len(send'.reply.Intents)
              /\ \A k \in 1..Len(send'.reply.Intents) :
                    Count(send'.reply.Intents[k], send'.resolveIntents)
                        = Count(send'.reply.Intents[k], send'.reply.Intents)]_vars

\* a failed push of a read without transaction, the WriteIntent error kept
C26_Witness ==
    /\ ResolutionRan(send)
    /\ send.pushErr # "nil"
    /\ ~send.ba.Txn
    /\ IsReadOnly(Conflicting(send))
    /\ send.err.type = "WriteIntentError"
    /\ send.pc = "next"

\* the request reads and does not write
ReadsOnly(method) == "isRead" \in flags(method) /\ "isWrite" \notin flags(method)

\* C31: Split puts a read and the write that follows it into two parts:
\* [Get, Put] becomes [Get], [Put], and no part begins with a read-only
\* request followed by a write; what the mask without isRead keeps
\* together is a write with a request that reads and writes:
\* [Put, ConditionalPut] and [ConditionalPut, Put] stay one part
C31_ReadThenWriteIsSplit ==
    splitCall.called =>
        /\ splitCall.Requests = <<"Get", "Put">> =>
              splitCall.parts = << <<"Get">>, <<"Put">> >>
        /\ \A p \in 1..Len(splitCall.parts) :
              (Len(splitCall.parts[p]) > 1 /\ ReadsOnly(splitCall.parts[p][1])) =>
                  "isWrite" \notin flags(splitCall.parts[p][2])
        /\ splitCall.Requests \in {<<"Put", "ConditionalPut">>, <<"ConditionalPut", "Put">>} =>
              Len(splitCall.parts) = 1

\* Split has been given [Get, Put]
C31_Witness ==
    /\ splitCall.called
    /\ splitCall.Requests = <<"Get", "Put">>
    /\ Len(splitCall.parts) = 2

\* C31 as stated: [Get, Put] stays one part
C31_ReadThenWriteIsOnePart ==
    (splitCall.called /\ splitCall.Requests = <<"Get", "Put">>) =>
        Len(splitCall.parts) = 1

(***************************************************************************)
(* THE STORE'S INDEXES  (storage/store.go): the replicas by range ID, the  *)
(* initialized replicas by end key and the uninitialized replicas, under   *)
(* Start, GroupStorage, snapshot application, SplitRange, MergeRange and    *)
(* RemoveReplica.  A Replica object is named by its range ID; the keys are  *)
(* 0..MaxKey, 0 being the empty key.                                        *)
(***************************************************************************)

\* the descriptors of initialized ranges
RangeDescs == {d \in [start : 0..(MaxKey - 1), end : 1..MaxKey, reps : ReplicaSets] : d.start < d.end}

\* the result of an operation on the indexes
Result(st, err) == [st |-> st, err |-> err]

\* btree.Has: the index holds an item with this end key
Has(st, key) == \E i \in st.replicasByKey : st.descs[i].end = key

\* btree.Delete: the item with this end key leaves the index
Delete(st, key) ==
    [st EXCEPT !.replicasByKey = {i \in @ : st.descs[i].end # key}]

\* btree.ReplaceOrInsert: the replica takes the place of the item with its
\* end key, if there is one
ReplaceOrInsert(st, id) ==
    [st EXCEPT !.replicasByKey = {i \in @ : st.descs[i].end # st.descs[id].end} \cup {id}]

\* Store.addReplicaToRangeMap
addReplicaToRangeMap(st, id, rdesc) ==
    IF id \in st.replicas THEN Result(st, "rangeAlreadyExists")
    ELSE Result([st EXCEPT !.replicas = @ \cup {id}, !.descs[id] = rdesc], "nil")

\* a variant of addReplicaInternal that leaves the btree alone
addReplicaInternal_MapOnly(st, id, rdesc) == addReplicaToRangeMap(st, id, rdesc)

\* Store.addReplicaInternal
addReplicaInternal(st, id, rdesc) ==
    IF ~isInitialized(rdesc) THEN Result(st, "uninitialized")
    ELSE LET m == addReplicaToRangeMap(st, id, rdesc)
         IN IF m.err # "nil" THEN m
            ELSE IF Has(m.st, rdesc.end) THEN Result(m.st, "rangeAlreadyExists")
            ELSE Result(ReplaceOrInsert(m.st, id), "nil")

\* Store.processRangeDescriptorUpdateLocked
processRangeDescriptorUpdateLocked(st, id) ==
    IF ~isInitialized(st.descs[id]) THEN Result(st, "uninitialized")
    ELSE IF id \notin st.uninitReplicas THEN Result(st, "nil")
    ELSE LET u == [st EXCEPT !.uninitReplicas = @ \ {id}]
         IN IF Has(u, u.descs[id].end) THEN Result(u, "rangeAlreadyExists")
            ELSE Result(ReplaceOrInsert(u, id), "nil")

\* Replica.setDesc: the descriptor is set and the store processes the update
setDesc(st, id, rdesc) ==
    processRangeDescriptorUpdateLocked([st EXCEPT !.descs[id] = rdesc], id)

\* a variant of removeReplicaImpl that leaves the replica in s.replicas
removeReplicaImpl_KeepInMap(st, id, fails) ==
    IF fails THEN Result(st, "RemoveGroup")
    ELSE LET g == [st EXCEPT !.removed = id]
         IN IF ~Has(g, g.descs[id].end) THEN Result(g, "notInBtree")
            ELSE Result(Delete(g, g.descs[id].end), "nil")

\* Store.removeReplicaImpl; fails: multiraft.RemoveGroup returns an error
removeReplicaImpl(st, id, fails) ==
    IF fails THEN Result(st, "RemoveGroup")
    ELSE LET g == [st EXCEPT !.removed = id, !.replicas = @ \ {id}]
         IN IF ~Has(g, g.descs[id].end) THEN Result(g, "notInBtree")
            ELSE Result(Delete(g, g.descs[id].end), "nil")

\* a variant of SplitRange that leaves the original range's end key alone
SplitRange_KeepEnd(st, orig, newID, newDesc) ==
    LET origDesc == st.descs[orig]
    IN IF origDesc.end # newDesc.end \/ origDesc.start >= newDesc.start
       THEN Result(st, "notSplittable")
       ELSE addReplicaInternal_MapOnly(st, newID, newDesc)

\* Store.SplitRange
SplitRange(st, orig, newID, newDesc) ==
    LET origDesc == st.descs[orig]
    IN IF origDesc.end # newDesc.end \/ origDesc.start >= newDesc.start
       THEN Result(st, "notSplittable")
       ELSE IF ~Has(st, origDesc.end) THEN Result(st, "notInBtree")
       ELSE LET c == [Delete(st, origDesc.end) EXCEPT !.descs[orig].end = newDesc.start]
                r == ReplaceOrInsert(c, orig)
                u == IF newID \in r.uninitReplicas
                     THEN [r EXCEPT !.uninitReplicas = @ \ {newID}, !.replicas = @ \ {newID}]
                     ELSE r
                a == addReplicaInternal(u, newID, newDesc)
            IN IF Has(c, newDesc.start) THEN Result(r, "couldNotInsert")
               ELSE IF a.err # "nil" THEN a
               ELSE processRangeDescriptorUpdateLocked(a.st, orig)

\* a variant of MergeRange that does not compare the replica sets
MergeRange_AnyReplicas(st, subsuming, updatedEndKey, subsumed, fails) ==
    LET subsumingDesc == st.descs[subsuming]
        r == removeReplicaImpl(st, subsumed, fails)
    IN IF ~(subsumingDesc.end < updatedEndKey) THEN Result(st, "endKeyNotGreater")
       ELSE IF subsumed \notin st.replicas THEN Result(st, "subsumedNotFound")
       ELSE IF r.err # "nil" THEN r
       ELSE setDesc(r.st, subsuming, [subsumingDesc EXCEPT !.end = updatedEndKey])

\* Store.MergeRange
MergeRange(st, subsuming, updatedEndKey, subsumed, fails) ==
    LET subsumingDesc == st.descs[subsuming]
        r == removeReplicaImpl(st, subsumed, fails)
    IN IF ~(subsumingDesc.end < updatedEndKey) THEN Result(st, "endKeyNotGreater")
       ELSE IF subsumed \notin st.replicas THEN Result(st, "subsumedNotFound")
       ELSE IF st.descs[subsumed].reps # subsumingDesc.reps THEN Result(st, "replicaSets")
       ELSE IF r.err # "nil" THEN r
       ELSE setDesc(r.st, subsuming, [subsumingDesc EXCEPT !.end = updatedEndKey])

\* Store.GroupStorage; stale: the range has a tombstone and the replica ID
\* is below its NextReplicaID
GroupStorage(st, id, stale) ==
    IF id \in st.replicas THEN Result(st, "nil")
    ELSE IF stale THEN Result(st, "ErrGroupDeleted")
    ELSE LET m == addReplicaToRangeMap(st, id, EmptyDesc)
         IN Result([m.st EXCEPT !.uninitReplicas = @ \cup {id}], "nil")

\* Store.CanApplySnapshot, of the store's indexes
StoreCanApplySnapshot(st, id, rdesc) ==
    \/ id \in st.replicas /\ isInitialized(st.descs[id])
    \/ ~Has(st, rdesc.end)

\* the spans of two descriptors share a key
Overlap(a, b) == a.start < b.end /\ b.start < a.end

\* no other action takes part in a step of the store's indexes
RangesFrame ==
    /\ UNCHANGED <<send, booted, splitCall>>
    /\ UNCHANGED <<group, nodes, created, writingGroups, writeTask, pendingEvents,
                   events, callbackChan, replica, multiNode, raftLog, sent, stepped,
                   handled, panicked, loopPc, handedIndex>>
    /\ UNCHANGED <<storageVars, ticks, replicasByKey, tombstone, proposals, proposed,
                   elections, lookup, verified>>

\* a Replica object that no index of the store holds is garbage
Forget(st) ==
    [st EXCEPT !.descs = [i \in RangeIDs |->
        IF i \in st.replicas \cup st.replicasByKey \cup st.uninitReplicas THEN @[i]
        ELSE EmptyDesc]]

\* the store as an operation finds it
Before == [store EXCEPT !.removed = 0]

\* the operation is recorded with its outcome; one that leaves the store
\* as it was leaves no trace
Record(name, res) ==
    IF res.st = Before
    THEN UNCHANGED <<store, storeOp>>
    ELSE /\ store' = Forget(res.st)
         /\ storeOp' = [name |-> name, err |-> res.err]

\* Store.Start adds a replica for a range descriptor of the engine; the
\* ranges of an engine share no key
LoadReplica ==
    /\ storeOp.name \in {"NewStore", "Start"}
    /\ \E id \in RangeIDs \ store.replicas, rdesc \in RangeDescs :
        /\ \A i \in store.replicas : ~Overlap(store.descs[i], rdesc)
        /\ Record("Start", addReplicaInternal(Before, id, rdesc))
        /\ RangesFrame

\* multiraft creates a group and asks the store for its storage
CallGroupStorage ==
    \E id \in RangeIDs, stale \in BOOLEAN :
        /\ Record("GroupStorage", GroupStorage(Before, id, stale))
        /\ RangesFrame

\* a snapshot the store admits is applied to a replica: applySnapshot sets
\* the descriptor.  A snapshot for an initialized replica carries the
\* descriptor the replica has; the range of a snapshot for an uninitialized
\* replica shares no key with the ranges of the btree.
ApplyRangeSnapshot ==
    \E id \in store.replicas, rdesc \in RangeDescs :
        /\ StoreCanApplySnapshot(store, id, rdesc)
        /\ IF isInitialized(store.descs[id]) THEN rdesc = store.descs[id]
           ELSE \A i \in store.replicasByKey : ~Overlap(store.descs[i], rdesc)
        /\ Record("ApplySnapshot", setDesc(Before, id, rdesc))
        /\ RangesFrame

\* a split trigger calls SplitRange with the replica it is applied to and
\* a new replica, which has the replica set of the original
CallSplitRange ==
    \E orig \in store.replicas, newID \in RangeIDs, newDesc \in RangeDescs :
        /\ newDesc.reps = store.descs[orig].reps
        /\ Record("SplitRange", SplitRange(Before, orig, newID, newDesc))
        /\ RangesFrame

\* a merge trigger names the right-hand neighbour of the range it is applied
\* to and that neighbour's end key; the store may not hold the neighbour
MergeArgs(st, subsuming, updatedEndKey, subsumed) ==
    /\ isInitialized(st.descs[subsuming])
    /\ subsumed # subsuming
    /\ (subsumed \in st.replicas /\ isInitialized(st.descs[subsumed])) =>
          /\ st.descs[subsumed].start = st.descs[subsuming].end
          /\ st.descs[subsumed].end = updatedEndKey

\* a merge trigger calls MergeRange with the replica it is applied to
CallMergeRange ==
    \E subsuming \in store.replicas, updatedEndKey \in 1..MaxKey, subsumed \in RangeIDs,
       fails \in BOOLEAN :
        /\ MergeArgs(store, subsuming, updatedEndKey, subsumed)
        /\ Record("MergeRange",
                  MergeRange(Before, subsuming, updatedEndKey, subsumed, fails))
        /\ RangesFrame

\* RemoveReplica is called with a replica of the store and runs
\* removeReplicaImpl on the processRaft goroutine
CallRemoveReplica ==
    \E id \in store.replicas, fails \in BOOLEAN :
        /\ Record("RemoveReplica", removeReplicaImpl(Before, id, fails))
        /\ RangesFrame

RangesNext ==
    \/ LoadReplica
    \/ CallGroupStorage
    \/ ApplyRangeSnapshot
    \/ CallSplitRange
    \/ CallMergeRange
    \/ CallRemoveReplica

SpecRanges == MultiRaftInit /\ [][RangesNext]_vars


\* the items of the btree, with their spans
Items(st) ==
    {[id |-> i, start |-> st.descs[i].start, end |-> st.descs[i].end] : i \in st.replicasByKey}

\* the range ID of the replica Store.LookupReplica(k, nil) returns on these
\* indexes, 0 if it returns none
Route(st, k) ==
    LET rng == AscendGreaterOrEqual(Items(st), Next(k))
    IN IF rng = NoSpan THEN 0
       ELSE IF ~ContainsKeyRange(rng, k, NilKey) THEN 0 ELSE rng.id

\* the keys of a descriptor's span
KeysOf(d) == {k \in 0..(MaxKey - 1) : d.start <= k /\ k < d.end}

\* the calls of MergeRange a merge trigger can make on the store
MergeCalls ==
    {c \in [subsuming : store.replicas, updatedEndKey : 1..MaxKey, subsumed : RangeIDs,
            fails : BOOLEAN] :
        MergeArgs(store, c.subsuming, c.updatedEndKey, c.subsumed)}

\* the outcome of a call of MergeRange on the store
Merged(c) == MergeRange(Before, c.subsuming, c.updatedEndKey, c.subsumed, c.fails)

\* the errors of MergeRange's preconditions
MergePreconditions == {"endKeyNotGreater", "subsumedNotFound", "replicaSets"}

\* what a call of MergeRange does but for the routing
MergeChecksAndEffects(c) ==
    LET res == Merged(c)
    IN /\ res.err = "nil" =>
            /\ c.subsumed \in store.replicas
            /\ store.descs[c.subsumed].reps = store.descs[c.subsuming].reps
            /\ c.updatedEndKey > store.descs[c.subsuming].end
            /\ c.subsumed \notin res.st.replicas
            /\ c.subsumed \notin res.st.replicasByKey
            /\ res.st.removed = c.subsumed
            /\ res.st.descs[c.subsuming].end = c.updatedEndKey
       /\ res.err \in MergePreconditions => res.st = Before

\* the keys of the subsumed range are routed to the subsuming range
MergeRoutes(c) ==
    \A k \in KeysOf(store.descs[c.subsumed]) : Route(Merged(c).st, k) = c.subsuming

\* C32: MergeRange succeeds only if the subsumed range is on the store with
\* the replica set of the subsuming range and the new end key is greater than
\* the subsuming range's end key; after success the subsumed range ID is in
\* neither index, its raft group is removed, the subsuming descriptor ends at
\* the new end key and LookupReplica routes each key of the subsumed span to
\* the subsuming replica; if a precondition fails neither the indexes nor a
\* descriptor changes.
C32_MergeRange ==
    \A c \in MergeCalls :
        /\ MergeChecksAndEffects(c)
        /\ Merged(c).err = "nil" => MergeRoutes(c)

\* a merge has extended a range of the btree and removed the group of a range
\* that is in no index
C32_Witness ==
    /\ storeOp = [name |-> "MergeRange", err |-> "nil"]
    /\ store.removed # 0
    /\ store.removed \notin store.replicas \cup store.replicasByKey
    /\ \E i \in store.replicasByKey : \A k \in 0..(MaxKey - 1) : Route(store, k) = i

\* the calls of SplitRange a split trigger can make on the store: the
\* arguments of CallSplitRange
SplitCalls ==
    {c \in [orig : store.replicas, newID : RangeIDs, newDesc : RangeDescs] :
        c.newDesc.reps = store.descs[c.orig].reps}

\* the outcome of a call of SplitRange on the store
Splitted(c) == SplitRange(Before, c.orig, c.newID, c.newDesc)

\* the replicas of the btree whose span holds the key
Holders(st, k) == {i \in st.replicasByKey : k \in KeysOf(st.descs[i])}

\* the spans of the btree share no key
Disjoint(st) == \A k \in 0..(MaxKey - 1) : Cardinality(Holders(st, k)) <= 1

\* C33: after a successful SplitRange(orig, new) the original range ends at
\* the new range's start key, both replicas are in s.replicas and in the
\* btree, every key is held by as many spans of the btree as before, and if
\* the spans shared no key before, each key a span held is routed by
\* LookupReplica to the one replica whose span holds it.
C33_SplitRangeTiles ==
    \A c \in SplitCalls :
        LET after == Splitted(c).st
        IN Splitted(c).err = "nil" =>
            /\ after.descs[c.orig].end = c.newDesc.start
            /\ after.descs[c.newID] = c.newDesc
            /\ {c.orig, c.newID} \subseteq after.replicas \cap after.replicasByKey
            /\ c.orig # c.newID
            /\ \A k \in 0..(MaxKey - 1) :
                  /\ Cardinality(Holders(after, k)) = Cardinality(Holders(store, k))
                  /\ Holders(after, k) \ {c.orig, c.newID} = Holders(store, k) \ {c.orig}
            /\ Disjoint(store) =>
                  \A k \in 0..(MaxKey - 1) :
                      Holders(store, k) # {} => Holders(after, k) = {Route(after, k)}

\* a split has left two neighbours in the btree, and every key is routed
C33_Witness ==
    /\ storeOp = [name |-> "SplitRange", err |-> "nil"]
    /\ Disjoint(store)
    /\ \E i, j \in store.replicasByKey :
          /\ i # j
          /\ store.descs[i].end = store.descs[j].start
    /\ \A k \in 0..(MaxKey - 1) : Route(store, k) # 0

\* C34: a replica of s.replicas is in exactly one of the btree and
\* s.uninitReplicas, in the btree if and only if it is initialized, and
\* neither holds a range ID that s.replicas does not hold.
C34_InitializedIffInBtree ==
    /\ \A id \in store.replicas :
          /\ (id \in store.replicasByKey) # (id \in store.uninitReplicas)
          /\ isInitialized(store.descs[id]) <=> id \in store.replicasByKey
    /\ store.replicasByKey \cup store.uninitReplicas \subseteq store.replicas

\* the btree holds the initialized replicas of s.replicas, and their spans
\* share no key
BtreeSound ==
    /\ store.replicasByKey = {i \in store.replicas : isInitialized(store.descs[i])}
    /\ Disjoint(store)

(***************************************************************************)
(* THE LOOP AND ITS CONSUMER  (multiraft.go, store.go processRaft)         *)
(***************************************************************************)

\* the loop is between handleWriteReady and handleWriteResponse
BatchInFlight == loopPc = "write"

\* the group of the batch is in s.groups, marked writing, as handleWriteReady
\* left it
LiveAndWriting == group.ok /\ group.writing /\ multiNode.ok /\ multiNode.inFlight

\* the events the step appends
Emitted == SubSeq(pendingEvents', Len(pendingEvents) + 1, Len(pendingEvents'))

\* C35: while a batch is with the write task its group is in s.groups and
\* marked writing (no group is removed or re-created between the pull of a
\* Ready and its write response); the write task persists, and the loop
\* turns committed entries into events, sends messages and advances the
\* library, only for such a group; the events are those of the group object
\* that was marked, and no step emits an event while the group is removed.
C35_BatchOnlyForLiveGroup ==
    /\ [](BatchInFlight => LiveAndWriting)
    /\ [][/\ (writeTask.in.ok /\ ~writeTask'.in.ok) => (BatchInFlight /\ LiveAndWriting)
          /\ (multiNode.inFlight /\ ~multiNode'.inFlight) =>
                \/ BatchInFlight /\ LiveAndWriting /\ multiNode'.ok
                \/ ~BatchInFlight /\ ~multiNode'.ok
          /\ EmitsEvents =>
                /\ BatchInFlight /\ LiveAndWriting
                /\ \A j \in 1..Len(Emitted) :
                      Emitted[j].type # "EventLeaderElection" => Emitted[j].inc = group.inc
          /\ (BatchInFlight /\ ~BatchInFlight' /\ sent' # <<>>) => LiveAndWriting
          /\ ~group.ok => pendingEvents' = pendingEvents \/ pendingEvents' = <<>>]_vars

\* the second group object of the range has had a batch applied: its
\* committed entry is an event of that object
C35_Witness ==
    /\ created > 1
    /\ handled.type = "WriteResponse"
    /\ group.ok /\ ~group.writing
    /\ \E j \in 1..Len(pendingEvents) :
          pendingEvents[j].type = "EventCommandCommitted" /\ pendingEvents[j].inc = created

\* the committed membership changes of group object inc among the events evs
ChangeEvents(evs, inc) ==
    Cardinality({j \in 1..Len(evs) :
                    evs[j].type = "EventMembershipChangeCommitted" /\ evs[j].inc = inc})

\* the committed membership changes of the present group whose closure the
\* loop has not run yet: buffered, with the consumer, or on callbackChan
Outstanding ==
    ChangeEvents(pendingEvents, group.inc) + ChangeEvents(events, group.inc)
      + (IF callbackChan.ok /\ callbackChan.inc = group.inc THEN 1 ELSE 0)

\* Store.processRaft is done with the first event of its slice
ConsumerStep == Len(events) > 0 /\ events' = Tail(events)

\* the loop receives a closure from callbackChan and runs it
ClosureStep == callbackChan.ok /\ ~callbackChan'.ok

ProposeWithoutGroup(id) ==
    propose([LoopState EXCEPT !.group = NoGroup, !.multiNode = NoRaft,
                              !.proposals[id] = [at |-> "taken", ch |-> "empty"]], id)

\* the loop removes the group: RemoveGroup, or handleMessage replacing it
GroupRemovedStep == group.ok /\ (~group'.ok \/ group'.inc # group.inc)

\* the loop runs the closure of a committed removal of this node from the
\* present group, which the consumer let pass
LocalNodeRemovedStep ==
    /\ CallbackStep
    /\ callbackChan.type = "ConfChangeRemoveNode" /\ callbackChan.err = "nil"
    /\ NodeOfReplica(callbackChan.replica) = nodeID

ConsumerNext ==
    \/ CreateGroup
    \/ RemoveReplica
    \/ Submit
    \/ Propose
    \/ PullReady
    \/ WriteTaskRun
    \/ HandleWriteResponse
    \/ SendEvents
    \/ ProcessEvent
    \/ RunCallback
    \/ RaftLead
    \/ RaftCommit
    \/ RaftCommitMore

\* the loop's select chooses at random among its ready cases, so a case
\* that is ready each time the loop comes to the select is taken; the write
\* task runs
LoopFairness ==
    /\ SF_vars(RunCallback)
    /\ SF_vars(Propose)
    /\ WF_vars(WriteTaskRun)
    /\ WF_vars(HandleWriteResponse)

SpecConsumer == MultiRaftInit /\ [][ConsumerNext]_vars /\ LoopFairness

\* Store.processRaft is blocked in a send to the loop: of a closure on
\* callbackChan, or of a proposal on proposalChan
ConsumerBlocked == callbackChan.ok \/ Submitting

\* Store.processRaft is in its own select, between two slices of events
ConsumerFree == events = <<>> /\ ~callbackChan.ok /\ ~Submitting

\* C38: the loop offers its buffered events only as a case of its select,
\* so with events buffered and the consumer not receiving, the loop at its
\* select still takes the closure from callbackChan, the proposal from
\* proposalChan, and a CreateGroup or RemoveGroup request; a loop that waits
\* for the write task comes back to its select; and a consumer blocked in a
\* send to the loop is always released.
C38_NoDeadlock ==
    /\ []((loopPc = "select" /\ callbackChan.ok) => ENABLED RunCallback)
    /\ []((loopPc = "select" /\ Submitting) => ENABLED Propose)
    /\ []((loopPc = "select" /\ ConsumerFree /\ replica.ok) => ENABLED RemoveReplica)
    /\ []((loopPc = "select" /\ replica.ok /\ ~group.ok /\ created < MaxIncarnations) =>
             ENABLED CreateGroup)
    /\ [][(events = <<>> /\ events' # <<>>) =>
             (loopPc = "select" /\ ConsumerFree /\ pendingEvents' = <<>>)]_vars
    /\ (loopPc = "write") ~> (loopPc = "select")
    /\ callbackChan.ok ~> ~callbackChan.ok
    /\ Submitting ~> ~Submitting

\* C38 happens: with events buffered in the loop and the consumer blocked in
\* the send of a closure, the loop has received and run the closure of an
\* earlier slice's membership change
C38_Witness ==
    /\ handled.type = "Callback"
    /\ Len(pendingEvents) > 0

\* the commands of this node that are in the range's log twice, both
\* entries handled by the loop
CommittedTwice ==
    {id \in CommandIDs :
        \E i, j \in 1..Len(raftLog) :
            /\ i < j /\ raftLog[i].cmd = id /\ raftLog[j].cmd = id
            /\ multiNode.ok /\ multiNode.applied >= raftInitialLogIndex + j}

\* C39: whatever completes a proposal (its commit, the removal of the group
\* or of this node, the rejection in propose, a re-submission, stop), the
\* value its channel holds is never followed by a second one: once the
\* channel of capacity one holds a result, no step of the loop sends to it
\* again, the commit of a second copy of the command included; and while the
\* loop runs, a proposal that has its result is in no pending set, so that
\* every send of a result finds the channel empty.
C39_AtMostOneResult ==
    /\ [](loopPc # "stopped" => \A id \in group.pending : proposals[id].ch = "empty")
    /\ [][\A id \in CommandIDs :
             /\ proposals[id].ch # "empty" => proposals'[id].ch = proposals[id].ch
             /\ proposals[id].at = "none" => proposals'[id].ch = "empty"]_vars

\* C39 happens: a command of this node was committed twice, the loop has
\* handled both entries, and its channel holds the result of the first
C39_Witness ==
    \E id \in CommittedTwice : proposals[id].ch = "nil" /\ id \notin group.pending

\* C40 as stated: every group ID registered with a node of s.nodes is a key
\* of s.groups.
C40_RegisteredGroupsExist ==
    \A n \in NodeIDs : (nodes[n].ok /\ groupID \in nodes[n].groupIDs) => group.ok

====
